---- MODULE Spec2Model ----
(***************************************************************************)
(* Verification model of OpenEnergyTools/iec61850lib.                      *)
(*                                                                         *)
(* Part 1 (specification Spec): the GOOSE retransmission engine of         *)
(* src/bin/ws_goose_tx.rs: the registry of control blocks, the init /      *)
(* update / stop command handlers and the per-control-block sender tasks,  *)
(* with tokio's Mutex, Notify and JoinHandle::abort semantics.             *)
(*                                                                         *)
(* A command handler holds the registry lock and the control block's state *)
(* lock from the moment the latter is granted until its last statement,    *)
(* with no await in between, so each handler is one action, enabled when   *)
(* the state lock is free; `polled` is the set of tasks that poll the      *)
(* state lock while the handler holds it.  A sender task is a sequence of  *)
(* actions cut at its awaits.  abort() marks a task cancelled; a task      *)
(* suspended at an await is dropped at once, a task that is running on     *)
(* another worker thread goes on until its next await that returns         *)
(* Pending.  Specification SpecTx runs two control blocks that share the   *)
(* transmit mutex; FairSpecTx adds the scheduling of the tokio runtime.    *)
(*                                                                         *)
(* Part 2 (specification SpecSmv): the Sampled Values codec of             *)
(* src/encode_smv.rs and src/decode_smv.rs, applied to frames drawn from   *)
(* bounded sets of SavPdu values; specification SpecSmvCut decodes the     *)
(* frames cut short after their header, specification SpecSavs calls the   *)
(* samples sub-parser with any declared block length.                      *)
(*                                                                         *)
(* Part 3 (specification SpecGoose): the GOOSE PDU codec of                *)
(* src/encode_goose.rs and src/decode_goose.rs with the conversions of     *)
(* src/types.rs between IECGoosePdu / IECData and their rasn forms.        *)
(*                                                                         *)
(* Part 4 (specification SpecBasics): the BER primitives of                *)
(* src/encode_basics.rs, each called on one input, and decompress_integer  *)
(* of src/decode_basics.rs.                                                *)
(*                                                                         *)
(* Each specification runs one part; the variables of the other parts      *)
(* stay at their idle values.                                              *)
(***************************************************************************)
EXTENDS Integers, Sequences, FiniteSets, TLC

VARIABLES
    goose_map,    \* HashMap go_cb_ref -> GooseState (a function on the keys present)
    tasks,        \* the spawned sender tasks, by slot
    state_lock,   \* per go_cb_ref: the task holding the GooseState mutex, 0 when free
    tx_eth,       \* the task holding the transmit mutex, 0 when free
    last_frame,   \* per go_cb_ref: the frame sent last on the wire
    hist,         \* per go_cb_ref: what happened since (history, read by the properties only)
    smv_pc,       \* SMV codec: "idle", "input", "encoded", "decoded", "decoded_cut"
    smv_in,       \* SMV codec: the EthernetHeader and the SavPdu given to encode_smv
    smv_frame,    \* SMV codec: the result of encode_smv
    smv_out,      \* SMV codec: the result of decode_smv
    goose_pc,     \* GOOSE codec: "idle", "input", "encoded" or "decoded"
    goose_in,     \* GOOSE codec: the IECGoosePdu given to encode_goose
    goose_frame,  \* GOOSE codec: the result of encode_goose
    goose_out,    \* GOOSE codec: the result of decode_goose_pdu
    basics_pc,    \* BER primitives: "idle", "input" or "done"
    basics_in,    \* BER primitives: the call made, <<function, argument>>
    basics_out    \* BER primitives: what the call returned

engine_vars == <<goose_map, tasks, state_lock, tx_eth, last_frame, hist>>
smv_vars == <<smv_pc, smv_in, smv_frame, smv_out>>
goose_codec_vars == <<goose_pc, goose_in, goose_frame, goose_out>>
basics_vars == <<basics_pc, basics_in, basics_out>>
codec_vars == <<smv_vars, goose_codec_vars, basics_vars>>
vars == <<engine_vars, codec_vars>>

-----------------------------------------------------------------------------
(* Bounds of the model *)

\* stNum / sqNum are u32 in the program; the model keeps the wrap-around and
\* shortens the range to 0..MaxCounter.
MaxCounter == 2

\* Number of task slots: sender tasks that can be alive (running or aborted
\* but not yet at an await) at the same time.
MaxTasks == 2

CounterMod == MaxCounter + 1

\* u32::saturating_add(1) in place of wrapping_add(1).
WrappingInc_Saturating(x) == IF x = MaxCounter THEN x ELSE x + 1

\* u32::wrapping_add(1)
WrappingInc(x) == (x + 1) % CounterMod

Min(a, b) == IF a <= b THEN a ELSE b

-----------------------------------------------------------------------------
(* Program constants *)

InitialInterval == 10000
BufferSize == 1518

Refs == {"gcb1"}

\* A go_cb_ref that no init command names: it is never in the registry.
OtherRefs == {"gcb2"}
TaskIds == 1..MaxTasks

\* all_data contents are abstracted to the size class of their encoding:
\* "small" fits the 1518-byte frame buffer, "big" does not.
DataSets == {"small", "big"}
BadData == "undeserializable"

\* GooseConfig::default(): empty strings and vectors, zero intervals.
DefaultConfig == [min_repetition |-> 0, max_repetition |-> 0, all_data |-> "empty"]

\* The configs an init command may carry (min_repetition <= max_repetition).
Configs == {[min_repetition |-> 1, max_repetition |-> 4, all_data |-> "small"]}

\* A config JSON that names go_cb_ref but does not deserialize to GooseConfig.
MalformedConfig == [min_repetition |-> -1, max_repetition |-> -1, all_data |-> "malformed"]

\* Length of the encoded frame of a data set (148 is the frame of the
\* repository's encode test; "big" exceeds any Ethernet frame).
EncodedSize(data) == IF data = "big" THEN 2000 ELSE 148

\* encode_goose(&config, &runtime, &mut buffer) returns Ok iff the frame fits.
EncodeGooseOk(config) == EncodedSize(config.all_data) <= BufferSize

\* The timeAllowedToLive encode_goose writes: it is given the config and the
\* runtime (st_num, sq_num, timestamp, src_addr) only, never current_interval.
TimeAllowedToLive(config) == 2 * config.max_repetition

\* after_update: the frame is the first one since an update that was processed
\* while the control block was running.
NoFrame == [valid |-> FALSE, st_num |-> 0, sq_num |-> 0, after_update |-> FALSE]

\* upd: an update was processed since the last frame; st_before: st_num just
\* before the latest such update; unsent: updates processed while running since
\* the last frame (capped at 2); wrapped: st_num or sq_num wrapped to 0 since
\* the last frame was built; quiet: no update since the last init;
\* since_init: frames sent since the last init while quiet (capped at 2);
\* ignored: an update or stop that names a go_cb_ref missing from the
\* registry was processed while this control block was running and its task
\* has been waiting in select! since.
NoHist == [upd |-> FALSE, st_before |-> 0, unsent |-> 0, wrapped |-> FALSE,
           quiet |-> TRUE, since_init |-> 0, ignored |-> FALSE]

\* sent: the task has sent a frame (history, read by the properties only).
DeadTask == [ref |-> "gcb1", pc |-> "dead", interval |-> 0, aborted |-> FALSE,
             notified |-> FALSE, sent |-> FALSE]

\* GooseState as created by the init handler for a new key.
NewGooseState ==
    [config |-> DefaultConfig,
     runtime |-> [st_num |-> 1, sq_num |-> 1],
     current_interval |-> InitialInterval,
     running |-> FALSE,
     handle |-> 0,
     notify |-> FALSE]

-----------------------------------------------------------------------------
(* Helpers *)

\* A slot can take a new task when its task is gone and no JoinHandle names it.
FreeSlot(t) ==
    /\ tasks[t].pc = "dead"
    /\ \A r \in DOMAIN goose_map : goose_map[r].handle # t

LockPcs == {"l159", "l165", "l193"}

\* JoinHandle::abort() on a task, called by a handler that holds the state
\* lock.  suspended: the task has polled the lock meanwhile and is parked
\* (only possible at a lock await).
AbortTask(tk, suspended) ==
    IF tk.pc = "dead" THEN tk
    ELSE IF tk.pc = "wait" THEN DeadTask
    ELSE IF tk.pc \in LockPcs /\ suspended THEN DeadTask
    ELSE [tk EXCEPT !.aborted = TRUE]

\* A task already marked cancelled that polls the state lock while a handler
\* holds it is suspended, and dropped.
DropPolled(tk, polled) ==
    IF polled /\ tk.aborted /\ tk.pc \in LockPcs THEN DeadTask ELSE tk

\* Dropping a Notified future that was notified but never polled hands the
\* notification back to the Notify.
ForwardedPermit(tk) == tk.pc = "wait" /\ tk.notified

-----------------------------------------------------------------------------
(* Initial state: empty registry, no task *)

\* No frame is being encoded or decoded by the SMV codec.
SmvIdle ==
    /\ smv_pc = "idle"
    /\ smv_in = <<>>
    /\ smv_frame = <<>>
    /\ smv_out = <<>>

\* No frame is being encoded or decoded by the GOOSE codec.
GooseIdle ==
    /\ goose_pc = "idle"
    /\ goose_in = <<>>
    /\ goose_frame = <<>>
    /\ goose_out = <<>>

\* No BER primitive is being called.
BasicsIdle ==
    /\ basics_pc = "idle"
    /\ basics_in = <<>>
    /\ basics_out = <<>>

EngineInit ==
    /\ goose_map = <<>>
    /\ tasks = [t \in TaskIds |-> DeadTask]
    /\ state_lock = [r \in Refs |-> 0]
    /\ tx_eth = 0
    /\ last_frame = [r \in Refs |-> NoFrame]
    /\ hist = [r \in Refs |-> NoHist]

Init == EngineInit /\ SmvIdle /\ GooseIdle /\ BasicsIdle

-----------------------------------------------------------------------------
(* Command handlers *)

\* {cmd:"init", config}: lines 102-200.
InitCmd(r, cfg, t, polled) ==
    /\ state_lock[r] = 0
    /\ FreeSlot(t)
    /\ \A u \in TaskIds : FreeSlot(u) => t <= u
    /\ LET old == IF r \in DOMAIN goose_map THEN goose_map[r] ELSE NewGooseState
           h == old.handle
           fwd == h # 0 /\ ForwardedPermit(tasks[h])
           new == [old EXCEPT
                     !.config = IF cfg = MalformedConfig THEN old.config ELSE cfg,
                     !.running = TRUE,
                     !.current_interval =
                         IF cfg = MalformedConfig THEN old.config.max_repetition
                         ELSE cfg.max_repetition,
                     !.handle = t,
                     !.notify = old.notify \/ fwd]
       IN /\ goose_map' = (r :> new) @@ goose_map
          /\ tasks' = [u \in TaskIds |->
                         IF u = t THEN [DeadTask EXCEPT !.ref = r, !.pc = "l159"]
                         ELSE IF u = h THEN AbortTask(tasks[u], u \in polled)
                         ELSE DropPolled(tasks[u], u \in polled /\ tasks[u].ref = r)]
    /\ hist' = [hist EXCEPT ![r].quiet = TRUE, ![r].since_init = 0, ![r].ignored = FALSE]
    /\ UNCHANGED <<state_lock, tx_eth, last_frame>>
    /\ UNCHANGED codec_vars

\* The history after a command that found no control block (map.get returned
\* None).
IgnoredCommand ==
    [q \in DOMAIN hist |->
        [hist[q] EXCEPT !.ignored =
            \/ @
            \/ /\ q \in DOMAIN goose_map
               /\ goose_map[q].running
               /\ goose_map[q].handle # 0
               /\ tasks[goose_map[q].handle].pc = "wait"
               /\ ~tasks[goose_map[q].handle].notified]]

\* {cmd:"stop", go_cb_ref}: lines 201-219.
StopCmd(r, polled) ==
    /\ r \in DOMAIN goose_map => state_lock[r] = 0
    /\ IF r \in DOMAIN goose_map
       THEN LET old == goose_map[r]
                h == old.handle
                fwd == h # 0 /\ ForwardedPermit(tasks[h])
            IN /\ goose_map' = [goose_map EXCEPT ![r].running = FALSE,
                                                 ![r].handle = 0,
                                                 ![r].notify = old.notify \/ fwd]
               /\ tasks' = [u \in TaskIds |->
                              IF u = h THEN AbortTask(tasks[u], u \in polled)
                              ELSE DropPolled(tasks[u], u \in polled /\ tasks[u].ref = r)]
               /\ hist' = [hist EXCEPT ![r].ignored = FALSE]
       ELSE /\ UNCHANGED <<goose_map, tasks>>
            /\ hist' = IgnoredCommand
    /\ UNCHANGED <<state_lock, tx_eth, last_frame>>
    /\ UNCHANGED codec_vars

\* notify.notify_one(): wakes the task waiting in select!, else stores a permit.
Waiter(r) == {t \in TaskIds : tasks[t].ref = r /\ tasks[t].pc = "wait" /\ ~tasks[t].notified}

\* The update handler with a notify_one() on every control block when the
\* go_cb_ref is missing from the registry.
UpdateCmd_NotifyAll(r, data, polled) ==
    /\ r \in DOMAIN goose_map => state_lock[r] = 0
    /\ IF r \in DOMAIN goose_map
       THEN LET old == goose_map[r]
                w == Waiter(r)
            IN /\ goose_map' = [goose_map EXCEPT
                     ![r].config.all_data = IF data = BadData THEN @ ELSE data,
                     ![r].runtime.st_num = WrappingInc(@),
                     ![r].runtime.sq_num = 1,
                     ![r].current_interval = old.config.min_repetition,
                     ![r].notify = IF w = {} THEN TRUE ELSE @]
               /\ tasks' = [u \in TaskIds |->
                              IF u \in w THEN [tasks[u] EXCEPT !.notified = TRUE]
                              ELSE DropPolled(tasks[u], u \in polled /\ tasks[u].ref = r)]
               /\ hist' = [hist EXCEPT
                     ![r].upd = TRUE,
                     ![r].st_before = old.runtime.st_num,
                     ![r].unsent = IF old.running THEN Min(@ + 1, 2) ELSE @,
                     ![r].wrapped = @ \/ old.runtime.st_num = MaxCounter,
                     ![r].quiet = FALSE,
                     ![r].since_init = 0,
                     ![r].ignored = FALSE]
       ELSE /\ goose_map' = [q \in DOMAIN goose_map |->
                               [goose_map[q] EXCEPT !.notify = TRUE]]
            /\ UNCHANGED tasks
            /\ hist' = IgnoredCommand
    /\ UNCHANGED <<state_lock, tx_eth, last_frame>>
    /\ UNCHANGED codec_vars

\* {cmd:"update", go_cb_ref, data}: lines 220-249.
UpdateCmd(r, data, polled) ==
    /\ r \in DOMAIN goose_map => state_lock[r] = 0
    /\ IF r \in DOMAIN goose_map
       THEN LET old == goose_map[r]
                w == Waiter(r)
            IN /\ goose_map' = [goose_map EXCEPT
                     ![r].config.all_data = IF data = BadData THEN @ ELSE data,
                     ![r].runtime.st_num = WrappingInc(@),
                     ![r].runtime.sq_num = 1,
                     ![r].current_interval = old.config.min_repetition,
                     ![r].notify = IF w = {} THEN TRUE ELSE @]
               /\ tasks' = [u \in TaskIds |->
                              IF u \in w THEN [tasks[u] EXCEPT !.notified = TRUE]
                              ELSE DropPolled(tasks[u], u \in polled /\ tasks[u].ref = r)]
               /\ hist' = [hist EXCEPT
                     ![r].upd = TRUE,
                     ![r].st_before = old.runtime.st_num,
                     ![r].unsent = IF old.running THEN Min(@ + 1, 2) ELSE @,
                     ![r].wrapped = @ \/ old.runtime.st_num = MaxCounter,
                     ![r].quiet = FALSE,
                     ![r].since_init = 0,
                     ![r].ignored = FALSE]
       ELSE /\ UNCHANGED <<goose_map, tasks>>
            /\ hist' = IgnoredCommand
    /\ UNCHANGED <<state_lock, tx_eth, last_frame>>
    /\ UNCHANGED codec_vars

-----------------------------------------------------------------------------
(* Sender task: lines 155-198 *)

\* The sender task with select! at the head of the loop, before the send.
TaskReadInterval_WaitFirst(t) ==
    LET r == tasks[t].ref IN
    /\ tasks[t].pc = "l159"
    /\ state_lock[r] = 0
    /\ tasks' = [tasks EXCEPT ![t].pc = "sel",
                              ![t].interval = goose_map[r].current_interval]
    /\ UNCHANGED <<goose_map, state_lock, tx_eth, last_frame, hist>>
    /\ UNCHANGED codec_vars

\* lines 158-161: lock the state, read current_interval once, unlock.
TaskReadInterval(t) ==
    LET r == tasks[t].ref IN
    /\ tasks[t].pc = "l159"
    /\ state_lock[r] = 0
    /\ tasks' = [tasks EXCEPT ![t].pc = "l165",
                              ![t].interval = goose_map[r].current_interval]
    /\ UNCHANGED <<goose_map, state_lock, tx_eth, last_frame, hist>>
    /\ UNCHANGED codec_vars

\* lines 165-178: lock the state and encode; a failed encode panics the task,
\* the unwinding drops the guard.
TaskLockEncode(t) ==
    LET r == tasks[t].ref IN
    /\ tasks[t].pc = "l165"
    /\ state_lock[r] = 0
    /\ IF EncodeGooseOk(goose_map[r].config)
       THEN /\ state_lock' = [state_lock EXCEPT ![r] = t]
            /\ tasks' = [tasks EXCEPT ![t].pc = "txlock"]
       ELSE /\ state_lock' = state_lock
            /\ tasks' = [tasks EXCEPT ![t] = DeadTask]
    /\ UNCHANGED <<goose_map, tx_eth, last_frame, hist>>
    /\ UNCHANGED codec_vars

\* line 175 without the mutex: the task goes on to send whoever holds tx_eth.
TaskTxLock_NoMutex(t) ==
    /\ tasks[t].pc = "txlock"
    /\ tx_eth' = t
    /\ tasks' = [tasks EXCEPT ![t].pc = "send"]
    /\ UNCHANGED <<goose_map, state_lock, last_frame, hist>>
    /\ UNCHANGED codec_vars

\* line 175: tx_eth2.lock().await
TaskTxLock(t) ==
    /\ tasks[t].pc = "txlock"
    /\ tx_eth = 0
    /\ tx_eth' = t
    /\ tasks' = [tasks EXCEPT ![t].pc = "send"]
    /\ UNCHANGED <<goose_map, state_lock, last_frame, hist>>
    /\ UNCHANGED codec_vars

\* The frame encode_goose builds from the locked state.
Frame(r) ==
    LET s == goose_map[r] IN
    [st_num |-> s.runtime.st_num,
     sq_num |-> s.runtime.sq_num,
     tal |-> TimeAllowedToLive(s.config),
     all_data |-> s.config.all_data]

\* The sender task with the increment of sq_num (line 182) left out.
TaskSend_NoIncrement(t) ==
    LET r == tasks[t].ref IN
    /\ tasks[t].pc = "send"
    /\ last_frame' = [last_frame EXCEPT ![r] =
           [valid |-> TRUE, st_num |-> Frame(r).st_num, sq_num |-> Frame(r).sq_num,
            after_update |-> hist[r].unsent > 0]]
    /\ tx_eth' = 0
    /\ state_lock' = [state_lock EXCEPT ![r] = 0]
    /\ tasks' = [tasks EXCEPT ![t].pc = "sel", ![t].sent = TRUE]
    /\ hist' = [hist EXCEPT ![r].upd = FALSE,
                            ![r].st_before = 0,
                            ![r].unsent = 0,
                            ![r].wrapped = goose_map[r].runtime.sq_num = MaxCounter,
                            ![r].since_init = IF hist[r].quiet THEN Min(@ + 1, 2) ELSE 0,
                            ![r].ignored = FALSE]
    /\ UNCHANGED goose_map
    /\ UNCHANGED codec_vars

\* lines 176-183: send the frame, drop the tx guard, increment sq_num, unlock.
TaskSend(t) ==
    LET r == tasks[t].ref IN
    /\ tasks[t].pc = "send"
    /\ last_frame' = [last_frame EXCEPT ![r] =
           [valid |-> TRUE, st_num |-> Frame(r).st_num, sq_num |-> Frame(r).sq_num,
            after_update |-> hist[r].unsent > 0]]
    /\ tx_eth' = 0
    /\ goose_map' = [goose_map EXCEPT ![r].runtime.sq_num = WrappingInc(@)]
    /\ state_lock' = [state_lock EXCEPT ![r] = 0]
    /\ tasks' = [tasks EXCEPT ![t].pc = "sel", ![t].sent = TRUE]
    /\ hist' = [hist EXCEPT ![r].upd = FALSE,
                            ![r].st_before = 0,
                            ![r].unsent = 0,
                            ![r].wrapped = goose_map[r].runtime.sq_num = MaxCounter,
                            ![r].since_init = IF hist[r].quiet THEN Min(@ + 1, 2) ELSE 0,
                            ![r].ignored = FALSE]
    /\ UNCHANGED codec_vars

\* lines 188-191, first poll of select!: a stored permit completes it at once;
\* a zero sleep may complete at once; otherwise the task is suspended, and a
\* task marked cancelled is dropped there.
TaskSelect(t) ==
    LET r == tasks[t].ref IN
    /\ tasks[t].pc = "sel"
    /\ \/ /\ goose_map[r].notify
          /\ goose_map' = [goose_map EXCEPT ![r].notify = FALSE]
          /\ tasks' = [tasks EXCEPT ![t].pc = "l193"]
       \/ /\ tasks[t].interval = 0
          /\ goose_map' = goose_map
          /\ tasks' = [tasks EXCEPT ![t].pc = "l193"]
       \/ /\ ~goose_map[r].notify
          /\ goose_map' = goose_map
          /\ tasks' = [tasks EXCEPT ![t] = IF tasks[t].aborted THEN DeadTask
                                           ELSE [@ EXCEPT !.pc = "wait"]]
    /\ UNCHANGED <<state_lock, tx_eth, last_frame, hist>>
    /\ UNCHANGED codec_vars

\* The sleep of `interval` ms elapses and the task is polled again.
TimerFire(t) ==
    /\ tasks[t].pc = "wait"
    /\ ~tasks[t].notified
    /\ tasks' = [tasks EXCEPT ![t].pc = "l193"]
    /\ hist' = [hist EXCEPT ![tasks[t].ref].ignored = FALSE]
    /\ UNCHANGED <<goose_map, state_lock, tx_eth, last_frame>>
    /\ UNCHANGED codec_vars

\* The notified task is polled again.  select! polls its branches in random
\* order: when the sleep has elapsed too and wins, the Notified future is
\* dropped and hands its notification back as a permit.
TaskWake(t, viaSleep) ==
    LET r == tasks[t].ref IN
    /\ tasks[t].pc = "wait"
    /\ tasks[t].notified
    /\ tasks' = [tasks EXCEPT ![t].pc = "l193", ![t].notified = FALSE]
    /\ goose_map' = [goose_map EXCEPT ![r].notify = IF viaSleep THEN TRUE ELSE @]
    /\ hist' = [hist EXCEPT ![r].ignored = FALSE]
    /\ UNCHANGED <<state_lock, tx_eth, last_frame>>
    /\ UNCHANGED codec_vars

\* lines 193-197: lock the state, leave the loop when running is false.
TaskCheckRunning(t) ==
    LET r == tasks[t].ref IN
    /\ tasks[t].pc = "l193"
    /\ state_lock[r] = 0
    /\ tasks' = [tasks EXCEPT ![t] = IF goose_map[r].running THEN [@ EXCEPT !.pc = "l165"]
                                           ELSE DeadTask]
    /\ UNCHANGED <<goose_map, state_lock, tx_eth, last_frame, hist>>
    /\ UNCHANGED codec_vars

\* A task marked cancelled that finds the state lock held is suspended, and
\* dropped.
TaskCancelAtLock(t) ==
    LET r == tasks[t].ref IN
    /\ tasks[t].pc \in LockPcs
    /\ tasks[t].aborted
    /\ state_lock[r] # 0
    /\ tasks' = [tasks EXCEPT ![t] = DeadTask]
    /\ UNCHANGED <<goose_map, state_lock, tx_eth, last_frame, hist>>
    /\ UNCHANGED codec_vars

-----------------------------------------------------------------------------

\* The sets of tasks that may poll the state lock while a stop or update
\* handler holds it; the handler locks no state when the go_cb_ref is missing
\* from the registry.
Pollers(r) == IF r \in Refs THEN SUBSET TaskIds ELSE {{}}

Next ==
    \/ \E r \in Refs, cfg \in Configs \cup {MalformedConfig}, t \in TaskIds,
          polled \in SUBSET TaskIds : InitCmd(r, cfg, t, polled)
    \/ \E r \in Refs \cup OtherRefs : \E polled \in Pollers(r) : StopCmd(r, polled)
    \/ \E r \in Refs \cup OtherRefs, d \in DataSets \cup {BadData} :
          \E polled \in Pollers(r) : UpdateCmd(r, d, polled)
    \/ \E t \in TaskIds : TaskReadInterval(t)
    \/ \E t \in TaskIds : TaskLockEncode(t)
    \/ \E t \in TaskIds : TaskTxLock(t)
    \/ \E t \in TaskIds : TaskSend(t)
    \/ \E t \in TaskIds : TaskSelect(t)
    \/ \E t \in TaskIds : TimerFire(t)
    \/ \E t \in TaskIds, v \in BOOLEAN : TaskWake(t, v)
    \/ \E t \in TaskIds : TaskCancelAtLock(t)
    \/ \E t \in TaskIds : TaskCheckRunning(t)

Spec == Init /\ [][Next]_engine_vars

-----------------------------------------------------------------------------
(* Specification SpecTx: two control blocks and the transmit mutex they    *)
(* share.  The handlers are init and stop; an update takes the same locks  *)
(* as a stop.                                                              *)

\* The go_cb_refs of the two control blocks.
TxRefs == {"gcb1", "gcb3"}

\* The configs of SpecTx: one whose frame fits the buffer, one whose frame
\* does not (encode_goose fails in the task).
TxConfigs == Configs \cup {[min_repetition |-> 1, max_repetition |-> 4, all_data |-> "big"]}

InitTx ==
    /\ goose_map = <<>>
    /\ tasks = [t \in TaskIds |-> DeadTask]
    /\ state_lock = [r \in TxRefs |-> 0]
    /\ tx_eth = 0
    /\ last_frame = [r \in TxRefs |-> NoFrame]
    /\ hist = [r \in TxRefs |-> NoHist]
    /\ SmvIdle
    /\ GooseIdle
    /\ BasicsIdle

\* line 175 in a task that keeps its guard of the state lock when it is
\* dropped.
TaskCancelAtTxLock_KeepsGuard(t) ==
    /\ tasks[t].pc = "txlock"
    /\ tasks[t].aborted
    /\ tx_eth # 0
    /\ tasks' = [tasks EXCEPT ![t] = DeadTask]
    /\ UNCHANGED <<goose_map, state_lock, tx_eth, last_frame, hist>>
    /\ UNCHANGED codec_vars

\* line 175: a task marked cancelled that finds the transmit mutex held is
\* suspended, and dropped; dropping it drops its guard of the state lock.
TaskCancelAtTxLock(t) ==
    LET r == tasks[t].ref IN
    /\ tasks[t].pc = "txlock"
    /\ tasks[t].aborted
    /\ tx_eth # 0
    /\ tasks' = [tasks EXCEPT ![t] = DeadTask]
    /\ state_lock' = [state_lock EXCEPT ![r] = 0]
    /\ UNCHANGED <<goose_map, tx_eth, last_frame, hist>>
    /\ UNCHANGED codec_vars

NextTx ==
    \/ \E r \in TxRefs, cfg \in TxConfigs, t \in TaskIds, polled \in SUBSET TaskIds :
          InitCmd(r, cfg, t, polled)
    \/ \E r \in TxRefs, polled \in SUBSET TaskIds : StopCmd(r, polled)
    \/ \E t \in TaskIds : TaskReadInterval(t)
    \/ \E t \in TaskIds : TaskLockEncode(t)
    \/ \E t \in TaskIds : TaskTxLock(t)
    \/ \E t \in TaskIds : TaskCancelAtTxLock(t)
    \/ \E t \in TaskIds : TaskSend(t)
    \/ \E t \in TaskIds : TaskSelect(t)
    \/ \E t \in TaskIds : TimerFire(t)
    \/ \E t \in TaskIds : TaskCancelAtLock(t)
    \/ \E t \in TaskIds : TaskCheckRunning(t)

SpecTx == InitTx /\ [][NextTx]_engine_vars

\* The steps of the fair specification.  Control block "gcb3" is
\* initialised once, with a config whose frame fits, and sends from then on;
\* control block "gcb1" is initialised, initialised again and stopped, with
\* either config.
NextTxLive ==
    \/ \E cfg \in TxConfigs, t \in TaskIds, polled \in SUBSET TaskIds :
          InitCmd("gcb1", cfg, t, polled)
    \/ \E cfg \in Configs, t \in TaskIds, polled \in SUBSET TaskIds :
          "gcb3" \notin DOMAIN goose_map /\ InitCmd("gcb3", cfg, t, polled)
    \/ \E polled \in SUBSET TaskIds : StopCmd("gcb1", polled)
    \/ \E t \in TaskIds : TaskReadInterval(t)
    \/ \E t \in TaskIds : TaskLockEncode(t)
    \/ \E t \in TaskIds : TaskTxLock(t)
    \/ \E t \in TaskIds : TaskCancelAtTxLock(t)
    \/ \E t \in TaskIds : TaskSend(t)
    \/ \E t \in TaskIds : TaskSelect(t)
    \/ \E t \in TaskIds : TimerFire(t)
    \/ \E t \in TaskIds : TaskCancelAtLock(t)
    \/ \E t \in TaskIds : TaskCheckRunning(t)

\* The scheduling of the program: the runtime polls a task that can run
\* (weak fairness of the steps that need no lock), and tokio's Mutex grants
\* the lock in FIFO order, so a task that waits for a lock that is freed
\* again and again gets it (strong fairness of the lock steps).  No fairness
\* for the handlers and the timers: a command need not arrive.
FairSpecTx ==
    /\ InitTx
    /\ [][NextTxLive]_engine_vars
    /\ \A t \in TaskIds :
          /\ WF_engine_vars(TaskSend(t))
          /\ WF_engine_vars(TaskCancelAtTxLock(t))
          /\ WF_engine_vars(TaskCancelAtLock(t))
          /\ SF_engine_vars(TaskTxLock(t))
          /\ SF_engine_vars(TaskReadInterval(t))
          /\ SF_engine_vars(TaskLockEncode(t))
          /\ SF_engine_vars(TaskCheckRunning(t))

-----------------------------------------------------------------------------
(* Properties of the retransmission engine *)

C2_WaitStartsAtMinAndDoubles ==
    \A t \in TaskIds :
        LET r == tasks[t].ref IN
        (/\ tasks[t].pc = "wait"
         /\ goose_map[r].handle = t
         /\ hist[r].quiet
         /\ hist[r].since_init >= 1
         /\ goose_map[r].config.min_repetition <= goose_map[r].config.max_repetition)
        => IF hist[r].since_init = 1
           THEN tasks[t].interval = goose_map[r].config.min_repetition
           ELSE /\ tasks[t].interval >= Min(2 * goose_map[r].config.min_repetition,
                                            goose_map[r].config.max_repetition)
                /\ tasks[t].interval <= goose_map[r].config.max_repetition

\* C3: the wait of the sender task that follows the frame triggered by an
\* update of a running control block (the frame with sqNum 1) lasts
\* min_repetition.
C3_WaitAfterUpdateIsMin ==
    \A t \in TaskIds :
        LET r == tasks[t].ref IN
        (/\ tasks[t].pc = "wait"
         /\ goose_map[r].handle = t
         /\ last_frame[r].after_update
         /\ last_frame[r].sq_num = 1
         /\ ~hist[r].upd)
        => tasks[t].interval = goose_map[r].config.min_repetition

\* C4: every emitted frame carries timeAllowedToLive equal to twice the
\* control block's current_interval at the moment of emission.
C4_TimeAllowedToLiveTracksInterval ==
    \A t \in TaskIds :
        tasks[t].pc = "send" =>
            Frame(tasks[t].ref).tal = 2 * goose_map[tasks[t].ref].current_interval

\* C5: once a stop has been processed for a control block, no frame is
\* emitted for it until a later init (running is false exactly from a stop to
\* the next init).
C5_NoFrameAfterStop ==
    \A t \in TaskIds :
        tasks[t].pc = "send" => goose_map[tasks[t].ref].running

\* C6: every update processed for a running control block is carried by an
\* emitted frame (its allData with its stNum): no second update is processed
\* while the first one has not been emitted.
C6_EveryUpdateEmitted ==
    \A r \in Refs : hist[r].unsent <= 1

\* C7 (as amended): of two consecutive frames of a control block the later
\* one's (stNum, sqNum) is strictly greater in lexicographic order, unless
\* stNum or sqNum wrapped around to 0 between the two frames.
C7_MonotonicUnlessWrapped ==
    [][\A t \in TaskIds : TaskSend(t) =>
          LET a == last_frame[tasks[t].ref]
              b == last_frame'[tasks[t].ref]
          IN (a.valid /\ ~hist[tasks[t].ref].wrapped) =>
                \/ a.st_num < b.st_num
                \/ a.st_num = b.st_num /\ a.sq_num < b.sq_num]_engine_vars

\* C7 witness: two frames in a row have been emitted since an init, with no
\* update in between.
C7_Witness ==
    \E r \in Refs : last_frame[r].valid /\ hist[r].quiet /\ hist[r].since_init = 2

\* C7 (as claimed): of two consecutive frames of a control block the later
\* one's (stNum, sqNum) is strictly greater in lexicographic order, always.
C7_StrictlyMonotonic ==
    [][\A t \in TaskIds : TaskSend(t) =>
          LET a == last_frame[tasks[t].ref]
              b == last_frame'[tasks[t].ref]
          IN a.valid =>
                \/ a.st_num < b.st_num
                \/ a.st_num = b.st_num /\ a.sq_num < b.sq_num]_engine_vars

\* C8: when encoding the frame fails, the sender task skips only that frame:
\* it stays alive and sq_num is incremented all the same.
C8_EncodeFailureSkipsFrame ==
    [][\A t \in TaskIds :
          (TaskLockEncode(t) /\ ~EncodeGooseOk(goose_map[tasks[t].ref].config)) =>
              /\ tasks'[t].pc # "dead"
              /\ goose_map'[tasks[t].ref].runtime.sq_num =
                     (goose_map[tasks[t].ref].runtime.sq_num + 1) % CounterMod]_engine_vars

\* C15: after a stop command is processed for a goCbRef, the registry holds
\* no control block (no stNum, sqNum, allData or interval state) for that
\* goCbRef until the next init for it.
C15_StopRemovesControlBlock ==
    [][\A r \in Refs, polled \in SUBSET TaskIds :
          StopCmd(r, polled) => r \notin DOMAIN goose_map']_engine_vars

\* C16: an init command whose config cannot be deserialized is dropped: it
\* creates no registry entry, starts no sender task, and leaves any existing
\* control block with that goCbRef (its config, its running task and its
\* counters) unchanged.
C16_MalformedInitIsDropped ==
    [][\A r \in Refs, t \in TaskIds, polled \in SUBSET TaskIds :
          InitCmd(r, MalformedConfig, t, polled) =>
              /\ goose_map' = goose_map
              /\ \A u \in TaskIds : tasks[u].pc = "dead" => tasks'[u].pc = "dead"
              /\ \A u \in TaskIds : tasks'[u].aborted = tasks[u].aborted]_engine_vars

\* C17: an update or stop command naming a goCbRef that is not in the
\* registry changes no control block's stNum, sqNum, allData, currentInterval
\* or running flag, and causes no frame to be emitted for any control block
\* (no task is woken, cancelled or started and nothing is sent).
C17_UnknownRefChangesNothing ==
    [][\A r \in (Refs \cup OtherRefs) \ DOMAIN goose_map :
          (\/ StopCmd(r, {})
           \/ \E d \in DataSets \cup {BadData} : UpdateCmd(r, d, {})) =>
              /\ goose_map' = goose_map
              /\ tasks' = tasks
              /\ last_frame' = last_frame]_engine_vars

\* Such a command was processed while a control block was running and its
\* task waited in select!; the task still waits.
C17_Witness ==
    \E r \in Refs :
        /\ r \in DOMAIN goose_map
        /\ hist[r].ignored
        /\ goose_map[r].running
        /\ goose_map[r].handle # 0
        /\ tasks[goose_map[r].handle].pc = "wait"
        /\ ~tasks[goose_map[r].handle].notified
        /\ ~goose_map[r].notify

\* C18: after an init command with a valid config is processed, the sender
\* task for that goCbRef emits its first frame before waiting on any timer
\* (the first emission is not delayed by an interval): a task that is at its
\* select! has sent a frame.
C18_FirstFrameBeforeAnyWait ==
    \A t \in TaskIds : tasks[t].pc \in {"sel", "wait"} => tasks[t].sent

\* The task started by a valid init has sent the frame stNum 1, sqNum 1 and
\* waits for the first time.
C18_Witness ==
    \E t \in TaskIds :
        /\ tasks[t].pc = "wait"
        /\ tasks[t].sent
        /\ goose_map[tasks[t].ref].handle = t
        /\ goose_map[tasks[t].ref].config \in Configs
        /\ hist[tasks[t].ref].since_init = 1
        /\ last_frame[tasks[t].ref].valid
        /\ last_frame[tasks[t].ref].st_num = 1
        /\ last_frame[tasks[t].ref].sq_num = 1

\* C25: an update processed after the sender task has sent a frame and
\* before it waits is not lost: the select! the task comes to next returns at
\* once, so the updated frame goes out without the timer.
C25_NoLostWakeup ==
    [][\A t \in TaskIds :
          LET r == tasks[t].ref IN
          ( /\ TaskSelect(t)
            /\ goose_map[r].handle = t
            /\ hist[r].upd )
          => tasks'[t].pc = "l193"]_engine_vars

\* C26: across all control blocks and all interleavings of their sender
\* tasks, at most one task is inside the raw send on the shared transmit
\* endpoint at any time.
C26_OneSendAtATime ==
    /\ \A t, u \in TaskIds : (tasks[t].pc = "send" /\ tasks[u].pc = "send") => t = u
    /\ \A t \in TaskIds : tasks[t].pc = "send" => tx_eth = t

\* The task of one control block is inside the send while the task of the
\* other control block, holding its own state lock, waits for tx_eth.
C26_Witness ==
    \E t, u \in TaskIds :
        /\ tasks[t].pc = "send"
        /\ tasks[u].pc = "txlock"
        /\ tasks[t].ref # tasks[u].ref
        /\ tx_eth = t
        /\ state_lock[tasks[u].ref] = u

C28_ReplacedTaskIsSilent ==
    \A t \in TaskIds :
        tasks[t].pc = "send" => goose_map[tasks[t].ref].handle \in {0, t}

\* C30: the task an init has started waits the whole interval between its
\* first and its second frame when no update was processed since that init:
\* its first select! suspends it.
C30_FirstWaitIsFull ==
    [][\A t \in TaskIds :
          LET r == tasks[t].ref IN
          ( /\ TaskSelect(t)
            /\ goose_map[r].handle = t
            /\ hist[r].quiet
            /\ hist[r].since_init = 1
            /\ tasks[t].interval > 0 )
          => tasks'[t].pc = "wait"]_engine_vars

-----------------------------------------------------------------------------
(* Part 2: the Sampled Values codec, src/encode_smv.rs and                 *)
(* src/decode_smv.rs.  Buffers are sequences of bytes; positions are       *)
(* counted from 0 as in the source.  u8 and u16 fields are numbers, u32    *)
(* fields their four big-endian bytes, strings their bytes (ASCII, so that *)
(* from_utf8_lossy changes nothing), an Option is a record with the field  *)
(* `some`.  The helpers of these two files that share a name with one of   *)
(* encode_basics.rs or decode_basics.rs carry the prefix smv_.             *)

None == [some |-> FALSE]
Some(x) == [some |-> TRUE, v |-> x]

\* buffer[i], i counted from 0
At(buffer, i) == buffer[i + 1]

\* &buffer[from..to], positions counted from 0
Slice(buffer, from, to) == SubSeq(buffer, from + 1, to)

Zeros(n) == [i \in 1..n |-> 0]

\* u16::to_be_bytes, u16::from_be_bytes, u8::to_be_bytes
U16ToBeBytes(v) == <<v \div 256, v % 256>>
U16FromBeBytes(b) == b[1] * 256 + b[2]
U8ToBeBytes(v) == <<v>>

\* i32::to_be_bytes and i32::from_be_bytes (two's complement)
I32ToBeBytes(v) ==
    LET u == IF v >= 0 THEN v ELSE -(v + 1)
        b == <<u \div 16777216, (u \div 65536) % 256, (u \div 256) % 256, u % 256>>
    IN IF v >= 0 THEN b ELSE [i \in 1..4 |-> 255 - b[i]]

I32FromBeBytes(b) ==
    IF b[1] < 128
    THEN ((b[1] * 256 + b[2]) * 256 + b[3]) * 256 + b[4]
    ELSE -((((255 - b[1]) * 256 + (255 - b[2])) * 256 + (255 - b[3])) * 256 + (255 - b[4])) - 1

\* Quality::from_u16 followed by Quality::to_u16: the 13 bits 15..3 are kept.
QualityFromU16(v) == v - (v % 8)

\* encode_smv.rs, smv_size_length
smv_size_length(value) ==
    IF value < 128 THEN 1
    ELSE IF value < 256 THEN 2
    ELSE IF value < 65535 THEN 3
    ELSE 4

\* The loop of unsigned_integer_length and smv_encode_unsigned_integer:
\* while start < value.len() - 1 && value[start] == 0x00
RECURSIVE StripLeadingZeros(_)
StripLeadingZeros(value) ==
    IF Len(value) > 1 /\ value[1] = 0 THEN StripLeadingZeros(Tail(value)) ELSE value

unsigned_integer_length(value) ==
    LET minimal == StripLeadingZeros(value)
    IN IF minimal # <<>> /\ minimal[1] >= 128 THEN Len(minimal) + 1 ELSE Len(minimal)

sample_length(sample) ==
    LET value_len == IF sample.value >= -128 /\ sample.value <= 127 THEN 1
                     ELSE IF sample.value >= -32768 /\ sample.value <= 32767 THEN 2
                     ELSE IF sample.value >= -8388608 /\ sample.value <= 8388607 THEN 3
                     ELSE 4
    IN 1 + 1 + value_len + 1 + 1 + 3

RECURSIVE samples_length(_)
samples_length(samples) ==
    IF samples = <<>> THEN 0 ELSE sample_length(Head(samples)) + samples_length(Tail(samples))

asdu_length(asdu) ==
    (1 + 1 + Len(asdu.msv_id))
    + (IF asdu.dat_set.some THEN 1 + 1 + Len(asdu.dat_set.v) ELSE 0)
    + (1 + 1 + unsigned_integer_length(U16ToBeBytes(asdu.smp_cnt)))
    + (1 + 1 + unsigned_integer_length(asdu.conf_rev))
    + (IF asdu.refr_tm.some THEN 1 + 1 + 8 ELSE 0)
    + (1 + 1 + unsigned_integer_length(U8ToBeBytes(asdu.smp_synch)))
    + (IF asdu.smp_rate.some
       THEN 1 + 1 + unsigned_integer_length(U16ToBeBytes(asdu.smp_rate.v)) ELSE 0)
    + (1 + smv_size_length(samples_length(asdu.all_data)) + samples_length(asdu.all_data))
    + (IF asdu.smp_mod.some
       THEN 1 + 1 + unsigned_integer_length(U16ToBeBytes(asdu.smp_mod.v)) ELSE 0)
    + (IF asdu.gm_identity.some THEN 1 + 1 + 8 ELSE 0)

\* The sum both pdu_length and encode_sav_pdu take over the ASDUs.
RECURSIVE asdus_len(_)
asdus_len(asdus) ==
    IF asdus = <<>> THEN 0
    ELSE 1 + smv_size_length(asdu_length(Head(asdus))) + asdu_length(Head(asdus))
         + asdus_len(Tail(asdus))

pdu_length(pdu) ==
    (1 + 1 + unsigned_integer_length(U16ToBeBytes(pdu.no_asdu)))
    + (IF pdu.security.some
       THEN 1 + smv_size_length(Len(pdu.security.v)) + Len(pdu.security.v) ELSE 0)
    + (1 + smv_size_length(asdus_len(pdu.sav_asdu)) + asdus_len(pdu.sav_asdu))

smv_size(header, pdu) ==
    (IF header.tpid.some /\ header.tci.some THEN 26 ELSE 22) + 1 + smv_size_length(pdu_length(pdu)) + pdu_length(pdu)

\* smv_encode_tag_length: the bytes written (lengths of 2^24 and more are an error
\* and do not occur here).
smv_encode_tag_length(tag, value) ==
    IF value < 128 THEN <<tag, value>>
    ELSE IF value < 256 THEN <<tag, 129, value>>
    ELSE IF value < 65535 THEN <<tag, 130, value \div 256, value % 256>>
    ELSE <<tag, 131, value \div 65536, (value \div 256) % 256, value % 256>>

smv_encode_ber(tag, value) == smv_encode_tag_length(tag, Len(value)) \o value

RECURSIVE smv_minimal_twos_complement_bytes(_)
smv_minimal_twos_complement_bytes(value) ==
    IF Len(value) > 1 /\ \/ (value[1] = 0 /\ value[2] < 128)
                         \/ (value[1] = 255 /\ value[2] >= 128)
    THEN smv_minimal_twos_complement_bytes(Tail(value))
    ELSE value

smv_encode_unsigned_integer(tag, value) ==
    LET minimal == StripLeadingZeros(value)
    IN IF minimal # <<>> /\ minimal[1] >= 128
       THEN smv_encode_ber(tag, <<0>> \o minimal)
       ELSE smv_encode_ber(tag, minimal)

smv_encode_integer(tag, value) == smv_encode_ber(tag, smv_minimal_twos_complement_bytes(value))

encode_sample(sample) ==
    smv_encode_integer(131, I32ToBeBytes(sample.value))
    \o smv_encode_ber(132, <<3>> \o U16ToBeBytes(sample.quality))

RECURSIVE encode_sample_seq(_)
encode_sample_seq(samples) ==
    IF samples = <<>> THEN <<>>
    ELSE encode_sample(Head(samples)) \o encode_sample_seq(Tail(samples))

encode_samples(samples) ==
    smv_encode_tag_length(135, samples_length(samples)) \o encode_sample_seq(samples)

encode_sav_asdu(asdu) ==
    smv_encode_tag_length(48, asdu_length(asdu))
    \o smv_encode_ber(128, asdu.msv_id)
    \o (IF asdu.dat_set.some THEN smv_encode_ber(129, asdu.dat_set.v) ELSE <<>>)
    \o smv_encode_unsigned_integer(130, U16ToBeBytes(asdu.smp_cnt))
    \o smv_encode_unsigned_integer(131, asdu.conf_rev)
    \o (IF asdu.refr_tm.some THEN smv_encode_ber(132, asdu.refr_tm.v) ELSE <<>>)
    \o smv_encode_unsigned_integer(133, U8ToBeBytes(asdu.smp_synch))
    \o (IF asdu.smp_rate.some
        THEN smv_encode_unsigned_integer(134, U16ToBeBytes(asdu.smp_rate.v)) ELSE <<>>)
    \o encode_samples(asdu.all_data)
    \o (IF asdu.smp_mod.some
        THEN smv_encode_unsigned_integer(136, U16ToBeBytes(asdu.smp_mod.v)) ELSE <<>>)
    \o (IF asdu.gm_identity.some THEN smv_encode_ber(137, asdu.gm_identity.v) ELSE <<>>)

RECURSIVE encode_sav_asdu_seq(_)
encode_sav_asdu_seq(asdus) ==
    IF asdus = <<>> THEN <<>>
    ELSE encode_sav_asdu(Head(asdus)) \o encode_sav_asdu_seq(Tail(asdus))

encode_sav_pdu(pdu) ==
    smv_encode_tag_length(96, pdu_length(pdu))
    \o smv_encode_unsigned_integer(128, U16ToBeBytes(pdu.no_asdu))
    \o (IF pdu.security.some THEN smv_encode_ber(129, pdu.security.v) ELSE <<>>)
    \o smv_encode_tag_length(162, asdus_len(pdu.sav_asdu))
    \o encode_sav_asdu_seq(pdu.sav_asdu)

\* encode_ethernet_header, with reserved 1 as encode_smv_into sets it.
smv_ethernet_header(header, length, sim) ==
    header.dst_addr \o header.src_addr
    \o (IF header.tpid.some /\ header.tci.some THEN header.tpid.v \o header.tci.v ELSE <<>>)
    \o header.ether_type \o header.appid
    \o U16ToBeBytes(length)
    \o <<IF sim THEN 128 ELSE 0, 0>> \o <<0, 0>>

\* encode_smv: a buffer of smv_size bytes, filled by encode_smv_into; a write
\* past the end of the buffer is an EncodeError.
encode_smv(header, pdu) ==
    LET size == smv_size(header, pdu)
        length == 1 + smv_size_length(pdu_length(pdu)) + pdu_length(pdu) + 8
        bytes == smv_ethernet_header(header, length, pdu.sim) \o encode_sav_pdu(pdu)
    IN IF Len(bytes) > size THEN [ok |-> FALSE, buffer |-> <<>>]
       ELSE [ok |-> TRUE, buffer |-> bytes \o Zeros(size - Len(bytes))]

(* decode_smv.rs.  A decoding result carries st: "ok", "err" (a DecodeError *)
(* is returned) or "panic" (an index or a slice out of the buffer's range). *)

TLFail(st) == [st |-> st, tag |-> 0, length |-> 0, pos |-> 0]

\* The big-endian number of the length bytes (smv_decode_tag_length, lines 267-271).
RECURSIVE BeValue(_)
BeValue(bytes) ==
    IF bytes = <<>> THEN 0
    ELSE BeValue(SubSeq(bytes, 1, Len(bytes) - 1)) * 256 + bytes[Len(bytes)]

smv_decode_tag_length(buffer, buffer_index) ==
    IF buffer_index >= Len(buffer) THEN TLFail("err")
    ELSE IF buffer_index + 1 >= Len(buffer) THEN TLFail("err")
    ELSE LET first_len_byte == At(buffer, buffer_index + 1)
             num_len_bytes == first_len_byte % 128
         IN IF first_len_byte < 128
            THEN [st |-> "ok", tag |-> At(buffer, buffer_index),
                  length |-> first_len_byte, pos |-> buffer_index + 2]
            ELSE IF num_len_bytes = 0 \/ num_len_bytes > 3 THEN TLFail("err")
            ELSE IF buffer_index + 2 + num_len_bytes > Len(buffer) THEN TLFail("err")
            ELSE [st |-> "ok", tag |-> At(buffer, buffer_index),
                  length |-> BeValue(Slice(buffer, buffer_index + 2,
                                           buffer_index + 2 + num_len_bytes)),
                  pos |-> buffer_index + 2 + num_len_bytes]

\* smv_decompress_integer into a value of `width` bytes.
smv_decompress_integer(width, buffer, buffer_index, length) ==
    IF buffer_index + length > Len(buffer) THEN [st |-> "err", value |-> <<>>]
    ELSE IF length > width THEN [st |-> "err", value |-> <<>>]
    ELSE IF buffer_index >= Len(buffer) THEN [st |-> "panic", value |-> <<>>]
    ELSE LET fill == IF At(buffer, buffer_index) >= 128 THEN 255 ELSE 0
         IN [st |-> "ok",
             value |-> [i \in 1..(width - length) |-> fill]
                       \o Slice(buffer, buffer_index, buffer_index + length)]

\* decode_unsigned_8, decode_unsigned_16 and decode_unsigned_32: the value
\* bytes, read by the caller with from_be_bytes.
smv_decode_unsigned(width, buffer, buffer_index, length) ==
    LET r == smv_decompress_integer(width, buffer, buffer_index, length)
    IN [st |-> r.st, value |-> r.value, pos |-> buffer_index + length]

\* decode_sim_bit that never looks for a VLAN tag
decode_sim_bit_NoVlan(buffer) ==
    IF Len(buffer) <= 18 THEN None ELSE Some(At(buffer, 18) >= 128)

decode_sim_bit(buffer) ==
    LET vlan == Len(buffer) >= 14 /\ Slice(buffer, 12, 14) = <<129, 0>>
        offset == 12 + (IF vlan THEN 4 ELSE 0) + 2 + 2 + 2
    IN IF Len(buffer) <= offset THEN None ELSE Some(At(buffer, offset) >= 128)

\* decode_basics.rs, decode_ethernet_header: the position it returns.
decode_ethernet_header_pos(buffer) ==
    IF Slice(buffer, 12, 14) = <<129, 0>> THEN 26 ELSE 22

Fail(d, st) == [d EXCEPT !.st = st]

\* decode_savs: the loop body, from position pos up to end_pos.
RECURSIVE decode_savs_loop(_, _, _, _)
decode_savs_loop(buffer, pos, end_pos, result) ==
    IF pos >= end_pos THEN [st |-> "ok", pos |-> pos, result |-> result]
    ELSE
    LET t1 == smv_decode_tag_length(buffer, pos)
        bad(st) == [st |-> st, pos |-> pos, result |-> result]
    IN IF t1.st # "ok" THEN bad(t1.st)
       ELSE IF t1.tag # 131 THEN bad("err")
       ELSE
       LET v == smv_decompress_integer(4, buffer, t1.pos, t1.length)
       IN IF v.st # "ok" THEN bad(v.st)
          ELSE
          LET t2 == smv_decode_tag_length(buffer, t1.pos + t1.length)
          IN IF t2.st # "ok" THEN bad(t2.st)
             ELSE IF t2.tag # 132 THEN bad("err")
             ELSE IF t2.pos >= Len(buffer) THEN bad("err")
             ELSE IF t2.length = 0 THEN bad("panic")
             ELSE IF t2.pos + 1 + (t2.length - 1) > Len(buffer) THEN bad("err")
             ELSE decode_savs_loop(buffer, t2.pos + t2.length, end_pos,
                     Append(result,
                        [value |-> I32FromBeBytes(v.value),
                         quality |-> QualityFromU16(
                            BeValue(Slice(buffer, t2.pos + 1, t2.pos + t2.length)) % 65536)]))

decode_savs(buffer, buffer_index, data_length) ==
    decode_savs_loop(buffer, buffer_index, buffer_index + data_length, <<>>)

DefaultAsdu ==
    [msv_id |-> <<>>, dat_set |-> None, smp_cnt |-> 0, conf_rev |-> Zeros(4),
     refr_tm |-> None, smp_synch |-> 0, smp_rate |-> None, all_data |-> <<>>,
     smp_mod |-> None, gm_identity |-> None]

\* decode_smv_asdu, lines 395-409: svID and the optional datSet.
AsduSvId(buffer, d) ==
    LET t == smv_decode_tag_length(buffer, d.pos)
    IN IF t.st # "ok" THEN Fail(d, t.st)
       ELSE IF t.pos + t.length > Len(buffer) THEN Fail(d, "err")
       ELSE [d EXCEPT !.pos = t.pos + t.length,
                      !.asdu.msv_id = Slice(buffer, t.pos, t.pos + t.length)]

AsduDatSet(buffer, d) ==
    IF d.st # "ok" THEN d
    ELSE IF d.pos >= Len(buffer) THEN Fail(d, "panic")
    ELSE IF At(buffer, d.pos) # 129 THEN d
    ELSE LET t == smv_decode_tag_length(buffer, d.pos)
         IN IF t.st # "ok" THEN Fail(d, t.st)
            ELSE IF t.pos + t.length > Len(buffer) THEN Fail(d, "err")
            ELSE [d EXCEPT !.pos = t.pos + t.length,
                           !.asdu.dat_set = Some(Slice(buffer, t.pos, t.pos + t.length))]

\* lines 411-417: smpCnt and confRev.
AsduSmpCnt(buffer, d) ==
    IF d.st # "ok" THEN d
    ELSE LET t == smv_decode_tag_length(buffer, d.pos)
             u == smv_decode_unsigned(2, buffer, t.pos, t.length)
         IN IF t.st # "ok" THEN Fail(d, t.st)
            ELSE IF u.st # "ok" THEN Fail(d, u.st)
            ELSE [d EXCEPT !.pos = u.pos, !.asdu.smp_cnt = U16FromBeBytes(u.value)]

AsduConfRev(buffer, d) ==
    IF d.st # "ok" THEN d
    ELSE LET t == smv_decode_tag_length(buffer, d.pos)
             u == smv_decode_unsigned(4, buffer, t.pos, t.length)
         IN IF t.st # "ok" THEN Fail(d, t.st)
            ELSE IF u.st # "ok" THEN Fail(d, u.st)
            ELSE [d EXCEPT !.pos = u.pos, !.asdu.conf_rev = u.value]

\* lines 419-429: the optional refrTm.
AsduRefrTm(buffer, d) ==
    IF d.st # "ok" THEN d
    ELSE IF d.pos >= Len(buffer) THEN Fail(d, "panic")
    ELSE IF At(buffer, d.pos) # 132 THEN d
    ELSE LET t == smv_decode_tag_length(buffer, d.pos)
         IN IF t.st # "ok" THEN Fail(d, t.st)
            ELSE IF t.pos + 8 > Len(buffer) THEN Fail(d, "panic")
            ELSE [d EXCEPT !.pos = t.pos + 8,
                           !.asdu.refr_tm = Some(Slice(buffer, t.pos, t.pos + 8))]

\* lines 431-444: smpSynch and the optional smpRate.
AsduSmpSynch(buffer, d) ==
    IF d.st # "ok" THEN d
    ELSE LET t == smv_decode_tag_length(buffer, d.pos)
             u == smv_decode_unsigned(1, buffer, t.pos, t.length)
         IN IF t.st # "ok" THEN Fail(d, t.st)
            ELSE IF u.st # "ok" THEN Fail(d, u.st)
            ELSE [d EXCEPT !.pos = u.pos, !.asdu.smp_synch = u.value[1]]

AsduSmpRate(buffer, d) ==
    IF d.st # "ok" THEN d
    ELSE IF d.pos >= Len(buffer) THEN Fail(d, "panic")
    ELSE IF At(buffer, d.pos) # 134 THEN d
    ELSE LET t == smv_decode_tag_length(buffer, d.pos)
             u == smv_decode_unsigned(2, buffer, t.pos, t.length)
         IN IF t.st # "ok" THEN Fail(d, t.st)
            ELSE IF u.st # "ok" THEN Fail(d, u.st)
            ELSE [d EXCEPT !.pos = u.pos, !.asdu.smp_rate = Some(U16FromBeBytes(u.value))]

\* lines 446-451: the samples.
AsduAllData(buffer, d) ==
    IF d.st # "ok" THEN d
    ELSE LET t == smv_decode_tag_length(buffer, d.pos)
             s == decode_savs(buffer, t.pos, t.length)
         IN IF t.st # "ok" THEN Fail(d, t.st)
            ELSE IF s.st # "ok" THEN Fail(d, s.st)
            ELSE [d EXCEPT !.pos = s.pos, !.asdu.all_data = s.result]

\* lines 453-471: the optional smpMod and gmIdentity.
AsduSmpMod(buffer, d) ==
    IF d.st # "ok" THEN d
    ELSE IF ~(d.pos < Len(buffer) /\ At(buffer, d.pos) = 136) THEN d
    ELSE LET t == smv_decode_tag_length(buffer, d.pos)
             u == smv_decode_unsigned(2, buffer, t.pos, t.length)
         IN IF t.st # "ok" THEN Fail(d, t.st)
            ELSE IF u.st # "ok" THEN Fail(d, u.st)
            ELSE [d EXCEPT !.pos = u.pos, !.asdu.smp_mod = Some(U16FromBeBytes(u.value))]

AsduGmIdentity(buffer, d) ==
    IF d.st # "ok" THEN d
    ELSE IF ~(d.pos < Len(buffer) /\ At(buffer, d.pos) = 137) THEN d
    ELSE LET t == smv_decode_tag_length(buffer, d.pos)
         IN IF t.st # "ok" THEN Fail(d, t.st)
            ELSE IF t.pos + t.length > Len(buffer) THEN Fail(d, "err")
            ELSE IF t.length > 8 THEN Fail(d, "panic")
            ELSE [d EXCEPT !.pos = t.pos + t.length,
                           !.asdu.gm_identity =
                               Some(Slice(buffer, t.pos, t.pos + t.length)
                                    \o Zeros(8 - t.length))]

decode_smv_asdu(buffer, start_pos) ==
    AsduGmIdentity(buffer, AsduSmpMod(buffer, AsduAllData(buffer, AsduSmpRate(buffer,
      AsduSmpSynch(buffer, AsduRefrTm(buffer, AsduConfRev(buffer, AsduSmpCnt(buffer,
        AsduDatSet(buffer, AsduSvId(buffer,
          [st |-> "ok", pos |-> start_pos, asdu |-> DefaultAsdu]))))))))))

RECURSIVE decode_smv_asdus(_, _, _, _)
decode_smv_asdus(val, buffer, start_pos, no_asdu) ==
    IF no_asdu = 0 THEN [st |-> "ok", pos |-> start_pos, val |-> val]
    ELSE LET t == smv_decode_tag_length(buffer, start_pos)
             a == decode_smv_asdu(buffer, t.pos)
         IN IF t.st # "ok" THEN [st |-> t.st, pos |-> start_pos, val |-> val]
            ELSE IF a.st # "ok" THEN [st |-> a.st, pos |-> start_pos, val |-> val]
            ELSE decode_smv_asdus(Append(val, a.asdu), buffer, a.pos, no_asdu - 1)

\* decode_smv: the result and the SavPdu it fills.  The function returns the
\* position only; security is a flag, the twelve bytes after its tag are
\* skipped, not read.
decode_smv(buffer, pos) ==
    LET pdu0 == [sim |-> IF decode_sim_bit(buffer).some THEN decode_sim_bit(buffer).v
                         ELSE FALSE,
                 no_asdu |-> 0, security |-> None, sav_asdu |-> <<>>]
        bad(st) == [st |-> st, pos |-> pos, pdu |-> pdu0]
        t1 == smv_decode_tag_length(buffer, pos)
        t2 == smv_decode_tag_length(buffer, t1.pos)
        n == smv_decode_unsigned(2, buffer, t2.pos, t2.length)
    IN IF t1.st # "ok" THEN bad(t1.st)
       ELSE IF t2.st # "ok" THEN bad(t2.st)
       ELSE IF n.st # "ok" THEN bad(n.st)
       ELSE IF n.pos >= Len(buffer) THEN bad("panic")
       ELSE
       LET security == At(buffer, n.pos) = 129
           new_pos == IF security THEN n.pos + 12 ELSE n.pos
           t3 == smv_decode_tag_length(buffer, new_pos)
           as == decode_smv_asdus(<<>>, buffer, t3.pos, U16FromBeBytes(n.value))
       IN IF t3.st # "ok" THEN bad(t3.st)
          ELSE IF as.st # "ok" THEN bad(as.st)
          ELSE [st |-> "ok", pos |-> as.pos,
                pdu |-> [sim |-> pdu0.sim,
                         no_asdu |-> U16FromBeBytes(n.value),
                         security |-> [some |-> security],
                         sav_asdu |-> as.val]]

-----------------------------------------------------------------------------
(* Part 2, the frames given to the codec *)

\* Largest number of ASDUs in a SavPdu and of samples in an ASDU.
MaxAsdus == 2
MaxSamples == 2

OptionalFields == {"dat_set", "refr_tm", "smp_rate", "smp_mod", "gm_identity"}

\* Values of an unsigned field: 1, the largest value with the top bit clear
\* and the largest value of the field's width.
UnsignedLevels == {"low", "mid", "max"}

UnsignedBytes(width, level) ==
    [i \in 1..width |->
        IF level = "low" THEN (IF i = width THEN 1 ELSE 0)
        ELSE IF level = "mid" /\ i = 1 THEN 127
        ELSE 255]

\* i32::MIN, a value that needs a leading 0x00, i32::MAX; quality words with
\* no, all and one of the 13 quality bits set.
SampleInputs ==
    {[value |-> -2147483647 - 1, quality |-> 0],
     [value |-> 128, quality |-> 65528],
     [value |-> 2147483647, quality |-> 8]}

RECURSIVE SeqsUpTo(_, _)
SeqsUpTo(S, n) ==
    IF n = 0 THEN {<<>>}
    ELSE LET shorter == SeqsUpTo(S, n - 1)
         IN shorter \cup {Append(q, x) : q \in {p \in shorter : Len(p) = n - 1}, x \in S}

AsduInput(present, level, samples) ==
    [msv_id |-> <<83, 86>>,
     dat_set |-> IF "dat_set" \in present THEN Some(<<68, 83>>) ELSE None,
     smp_cnt |-> U16FromBeBytes(UnsignedBytes(2, level)),
     conf_rev |-> UnsignedBytes(4, level),
     refr_tm |-> IF "refr_tm" \in present THEN Some(<<1, 2, 3, 4, 5, 6, 7, 8>>) ELSE None,
     smp_synch |-> UnsignedBytes(1, level)[1],
     smp_rate |-> IF "smp_rate" \in present
                  THEN Some(U16FromBeBytes(UnsignedBytes(2, level))) ELSE None,
     all_data |-> samples,
     smp_mod |-> IF "smp_mod" \in present
                 THEN Some(U16FromBeBytes(UnsignedBytes(2, level))) ELSE None,
     gm_identity |-> IF "gm_identity" \in present
                     THEN Some(<<0, 1, 2, 3, 4, 5, 6, 255>>) ELSE None]

AsduInputs ==
    {AsduInput(present, level, samples) :
        present \in SUBSET OptionalFields, level \in UnsignedLevels,
        samples \in SeqsUpTo(SampleInputs, MaxSamples)}

\* No security field, ten bytes of it, two bytes of it.
SecurityInputs == {None, Some(Zeros(10)), Some(<<1, 2>>)}

\* A SavPdu of n ASDUs that carry consecutive sample counts (u16, wrapping),
\* with no_asdu = n.
PduInput(sim, security, asdu, n) ==
    [sim |-> sim,
     no_asdu |-> n,
     security |-> security,
     sav_asdu |-> [i \in 1..n |-> [asdu EXCEPT !.smp_cnt = (@ + i - 1) % 65536]]]

PduInputs ==
    {PduInput(sim, security, asdu, n) :
        sim \in BOOLEAN, security \in SecurityInputs,
        asdu \in AsduInputs, n \in 1..MaxAsdus}
    \cup {PduInput(sim, security, DefaultAsdu, 0) :
             sim \in BOOLEAN, security \in SecurityInputs}

SmvHeader(vlan) ==
    [dst_addr |-> <<1, 12, 205, 4, 0, 1>>,
     src_addr |-> <<0, 26, 182, 3, 47, 28>>,
     tpid |-> IF vlan THEN Some(<<129, 0>>) ELSE None,
     tci |-> IF vlan THEN Some(<<128, 1>>) ELSE None,
     ether_type |-> <<136, 186>>,
     appid |-> <<64, 0>>]

-----------------------------------------------------------------------------
(* Part 2, the specification: a frame is encoded, then decoded *)

InitSmv ==
    /\ EngineInit
    /\ GooseIdle
    /\ BasicsIdle
    /\ smv_pc = "input"
    /\ smv_in \in {[header |-> SmvHeader(vlan), pdu |-> pdu] :
                      vlan \in BOOLEAN, pdu \in PduInputs}
    /\ smv_frame = <<>>
    /\ smv_out = <<>>

\* encode_smv(&header, &pdu)
SmvEncode ==
    /\ smv_pc = "input"
    /\ smv_frame' = encode_smv(smv_in.header, smv_in.pdu)
    /\ smv_pc' = "encoded"
    /\ UNCHANGED <<smv_in, smv_out, engine_vars, goose_codec_vars, basics_vars>>

\* pos = decode_ethernet_header(&mut header, &encoded); decode_smv(&encoded, pos)
SmvDecode ==
    /\ smv_pc = "encoded"
    /\ smv_frame.ok
    /\ smv_out' = decode_smv(smv_frame.buffer, decode_ethernet_header_pos(smv_frame.buffer))
    /\ smv_pc' = "decoded"
    /\ UNCHANGED <<smv_in, smv_frame, engine_vars, goose_codec_vars, basics_vars>>

\* The longest piece of the SavPdu left in a frame that was cut short.
MaxCut == 120

\* A frame that was cut after the Ethernet header and `cut` bytes of the
\* SavPdu is received: pos = decode_ethernet_header(..); decode_smv(&cut, pos)
SmvDecodeTruncated ==
    /\ smv_pc = "encoded"
    /\ smv_frame.ok
    /\ \E cut \in 0..MaxCut :
          LET pos == decode_ethernet_header_pos(smv_frame.buffer)
              received == Slice(smv_frame.buffer, 0, pos + cut)
          IN /\ pos + cut < Len(smv_frame.buffer)
             /\ smv_frame' = [ok |-> TRUE, buffer |-> received]
             /\ smv_out' = decode_smv(received, pos)
    /\ smv_pc' = "decoded_cut"
    /\ UNCHANGED <<smv_in, engine_vars, goose_codec_vars, basics_vars>>

NextSmv ==
    \/ SmvEncode
    \/ SmvDecode

SpecSmv == InitSmv /\ [][NextSmv]_vars

-----------------------------------------------------------------------------
(* Part 2, specification SpecSmvCut: a frame is encoded and received cut   *)
(* short at any byte of its SavPdu                                         *)

\* Frames of one ASDU with any combination of optional fields.
CutInputs ==
    {PduInput(FALSE, security, AsduInput(present, "low", samples), 1) :
        security \in SecurityInputs, present \in SUBSET OptionalFields,
        samples \in SeqsUpTo(SampleInputs, 1)}

InitSmvCut ==
    /\ EngineInit
    /\ GooseIdle
    /\ BasicsIdle
    /\ smv_pc = "input"
    /\ smv_in \in {[header |-> SmvHeader(vlan), pdu |-> pdu] :
                      vlan \in BOOLEAN, pdu \in CutInputs}
    /\ smv_frame = <<>>
    /\ smv_out = <<>>

NextSmvCut ==
    \/ SmvEncode
    \/ SmvDecodeTruncated

SpecSmvCut == InitSmvCut /\ [][NextSmvCut]_vars

-----------------------------------------------------------------------------
(* Part 2, specification SpecSavs: the samples sub-parser is given the     *)
(* encoded samples and a declared length of the 0x87 block                 *)

\* The largest declared length of a samples block (two samples take 22
\* bytes).
MaxBlock == 24

InitSavs ==
    /\ EngineInit
    /\ GooseIdle
    /\ BasicsIdle
    /\ smv_pc = "input"
    /\ smv_in \in {[samples |-> samples, data_length |-> n] :
                      samples \in SeqsUpTo(SampleInputs, MaxSamples), n \in 0..MaxBlock}
    /\ smv_frame = <<>>
    /\ smv_out = <<>>

\* decode_savs(&buffer, 0, data_length) on the bytes of the samples, as in
\* test_decode_variable_sample_count.
SavsDecode ==
    /\ smv_pc = "input"
    /\ smv_frame' = [ok |-> TRUE, buffer |-> encode_sample_seq(smv_in.samples)]
    /\ smv_out' = decode_savs(encode_sample_seq(smv_in.samples), 0, smv_in.data_length)
    /\ smv_pc' = "decoded_savs"
    /\ UNCHANGED <<smv_in, engine_vars, goose_codec_vars, basics_vars>>

SpecSavs == InitSavs /\ [][SavsDecode]_vars

-----------------------------------------------------------------------------
(* Properties of the SMV codec *)

\* C9: for every SavPdu whose noASDU equals its number of ASDUs, with any
\* combination of optional fields, security content of any length, unsigned
\* fields anywhere in their range and samples anywhere in the i32 range,
\* encode_smv succeeds, decoding its frame succeeds and yields sim, noASDU,
\* security and every ASDU field and sample equal to those of the input.
C9_SmvRoundTrip ==
    /\ smv_pc \in {"encoded", "decoded"} => smv_frame.ok
    /\ smv_pc = "decoded" =>
          /\ smv_out.st = "ok"
          /\ smv_out.pdu.sim = smv_in.pdu.sim
          /\ smv_out.pdu.no_asdu = smv_in.pdu.no_asdu
          /\ smv_out.pdu.security = smv_in.pdu.security
          /\ smv_out.pdu.sav_asdu = smv_in.pdu.sav_asdu

\* C13: for every byte buffer and start position, including truncated frames,
\* zero-length fields and length fields that point past the end of the
\* buffer, decode_smv returns either Ok or a DecodeError; it never panics and
\* never reads outside the buffer.
C13_DecodeSmvNeverPanics ==
    smv_pc \in {"decoded", "decoded_cut"} => smv_out.st \in {"ok", "err"}

\* C22: for every SMV frame produced by encode_smv, the byte at offset 18
\* (header without VLAN tag) or offset 22 (header with VLAN tag) is 0x80 when
\* sim is true and 0x00 when sim is false, and decode_sim_bit applied to that
\* frame returns the same sim value.
C22_SimBit ==
    (smv_pc \in {"encoded", "decoded"} /\ smv_frame.ok) =>
        LET offset == IF smv_in.header.tpid.some /\ smv_in.header.tci.some THEN 22 ELSE 18
        IN /\ At(smv_frame.buffer, offset) = (IF smv_in.pdu.sim THEN 128 ELSE 0)
           /\ decode_sim_bit(smv_frame.buffer) = Some(smv_in.pdu.sim)
           /\ smv_pc = "decoded" => smv_out.pdu.sim = smv_in.pdu.sim

\* A frame with a VLAN tag and sim set was encoded and decoded.
C22_Witness ==
    /\ smv_pc = "decoded"
    /\ smv_in.header.tpid = Some(<<129, 0>>)
    /\ smv_in.pdu.sim
    /\ At(smv_frame.buffer, 22) = 128
    /\ smv_out.st = "ok"
    /\ smv_out.pdu.sim

\* The lengths at which a sequence of samples ends after a whole pair.
PairEnds(samples) ==
    {Len(encode_sample_seq(SubSeq(samples, 1, k))) : k \in 0..Len(samples)}

\* C27: the samples sub-parser returns an error whenever the (0x83, 0x84)
\* pairs do not end exactly at the end of the 0x87 block, in particular when
\* the last pair reaches past the declared length of the block.
C27_MisalignedBlockIsError ==
    (smv_pc = "decoded_savs" /\ smv_in.data_length \notin PairEnds(smv_in.samples))
        => smv_out.st = "err"

-----------------------------------------------------------------------------
(* Part 3: the GOOSE PDU codec, src/types.rs, src/encode_goose.rs and       *)
(* src/decode_goose.rs.  An IECData or IECDataRasn value is a pair          *)
(* <<variant, content>>.  i64, u64 and f64 values are their eight           *)
(* big-endian bytes and u32 values their four, so that every width is kept; *)
(* a rasn Integer (arbitrary precision) is its shortest two's complement    *)
(* form; a String is the sequence of its characters.  rasn's BER is         *)
(* modelled by the tag and the content octets of each element (X.690); the  *)
(* length octets, which rasn writes and reads back, are only counted.       *)

Variant(d) == d[1]
Content(d) == d[2]

\* The shortest two's complement form of a number given by its bytes.
RECURSIVE ShortestTwosComplement(_)
ShortestTwosComplement(bytes) ==
    IF Len(bytes) > 1 /\ \/ (bytes[1] = 0 /\ bytes[2] < 128)
                         \/ (bytes[1] = 255 /\ bytes[2] >= 128)
    THEN ShortestTwosComplement(Tail(bytes))
    ELSE bytes

\* Integer::from(i64)
IntegerFromI64(value) == ShortestTwosComplement(value)

\* `u as i64` for a u64: the same 64 bits, read as a signed number.
U64AsI64(value) == value

\* `u as i64` for a u32: zero extension.
U32AsI64(value) == Zeros(4) \o value

IntegerIsNegative(int) == int[1] >= 128

\* i64::try_from(&Integer)
I64TryFrom(int) ==
    IF Len(int) > 8 THEN None
    ELSE Some([i \in 1..(8 - Len(int)) |-> IF IntegerIsNegative(int) THEN 255 ELSE 0] \o int)

\* u64::try_from(&Integer) and u32::try_from(&Integer), width in bytes
UnsignedTryFrom(width, int) ==
    LET magnitude == StripLeadingZeros(int)
    IN IF IntegerIsNegative(int) \/ Len(magnitude) > width THEN None
       ELSE Some(Zeros(width - Len(magnitude)) \o magnitude)

\* Option::unwrap_or(0)
UnwrapOrZero(width, opt) == IF opt.some THEN opt.v ELSE Zeros(width)

\* VisibleString::try_from(&str): the characters from space to tilde.
VisibleStringTryFrom(s) ==
    IF \A i \in 1..Len(s) : s[i] >= 32 /\ s[i] <= 126 THEN Some(s) ELSE None

\* .unwrap_or_default() and .unwrap_or_else(|_| VisibleString::try_from("").unwrap())
VisibleOrEmpty(s) == IF VisibleStringTryFrom(s).some THEN s ELSE <<>>

\* u8::from_str_radix(chunk, 2) on a chunk of at most 8 characters.
RECURSIVE BinaryValue(_)
BinaryValue(chunk) ==
    IF chunk = <<>> THEN 0
    ELSE 2 * BinaryValue(SubSeq(chunk, 1, Len(chunk) - 1))
         + (IF chunk[Len(chunk)] = "1" THEN 1 ELSE 0)

FromStrRadix2(chunk) ==
    IF chunk # <<>> /\ \A i \in 1..Len(chunk) : chunk[i] \in {"0", "1"}
    THEN Some(BinaryValue(chunk)) ELSE None

\* binary_str.as_bytes().chunks(8), each chunk parsed, the failures left out.
RECURSIVE BitStringBytes(_)
BitStringBytes(binary_str) ==
    IF binary_str = <<>> THEN <<>>
    ELSE LET n == IF Len(binary_str) < 8 THEN Len(binary_str) ELSE 8
             byte == FromStrRadix2(SubSeq(binary_str, 1, n))
             rest == BitStringBytes(SubSeq(binary_str, n + 1, Len(binary_str)))
         IN IF byte.some THEN <<byte.v>> \o rest ELSE rest

\* format!("{:08b}", byte)
Format08b(byte) ==
    [i \in 1..8 |-> IF (byte \div (2 ^ (8 - i))) % 2 = 1 THEN "1" ELSE "0"]

RECURSIVE BinaryString(_)
BinaryString(bytes) ==
    IF bytes = <<>> THEN <<>> ELSE Format08b(Head(bytes)) \o BinaryString(Tail(bytes))

HexLower == <<"0", "1", "2", "3", "4", "5", "6", "7", "8", "9", "a", "b", "c", "d", "e", "f">>
HexUpper == <<"0", "1", "2", "3", "4", "5", "6", "7", "8", "9", "A", "B", "C", "D", "E", "F">>

IsHexDigit(c) == \E i \in 1..16 : HexLower[i] = c \/ HexUpper[i] = c
HexDigitValue(c) == (CHOOSE i \in 1..16 : HexLower[i] = c \/ HexUpper[i] = c) - 1

\* hex::decode(hex_str).unwrap_or_default()
HexDecodeOrDefault(hex_str) ==
    IF Len(hex_str) % 2 = 1 \/ \E i \in 1..Len(hex_str) : ~IsHexDigit(hex_str[i])
    THEN <<>>
    ELSE [i \in 1..(Len(hex_str) \div 2) |->
             16 * HexDigitValue(hex_str[2 * i - 1]) + HexDigitValue(hex_str[2 * i])]

\* hex::encode(octets)
RECURSIVE HexEncode(_)
HexEncode(octets) ==
    IF octets = <<>> THEN <<>>
    ELSE <<HexLower[(Head(octets) \div 16) + 1], HexLower[(Head(octets) % 16) + 1]>>
         \o HexEncode(Tail(octets))

\* TimeQuality::to_byte and TimeQuality::from_byte
TimeQualityToByte(q) ==
    (IF q.leap_second_known THEN 128 ELSE 0)
    + (IF q.clock_failure THEN 64 ELSE 0)
    + (IF q.clock_not_synchronized THEN 32 ELSE 0)
    + (q.time_accuracy % 32)

TimeQualityFromByte(byte) ==
    [leap_second_known |-> byte >= 128,
     clock_failure |-> (byte \div 64) % 2 = 1,
     clock_not_synchronized |-> (byte \div 32) % 2 = 1,
     time_accuracy |-> byte % 32]

\* Timestamp::to_bytes; From<&Timestamp> for TimestampRasn
TimestampToBytes(ts) ==
    ts.seconds \o <<ts.fraction[2], ts.fraction[3], ts.fraction[4]>>
    \o <<TimeQualityToByte(ts.quality)>>

\* From<&TimestampRasn> for Timestamp, on the eight octets of a timestamp
TimestampFromRasn(bytes) ==
    [seconds |-> SubSeq(bytes, 1, 4),
     fraction |-> <<0, bytes[5], bytes[6], bytes[7]>>,
     quality |-> TimeQualityFromByte(bytes[8])]

\* `f32 as f64` on the bits of a normal, zero, infinite or NaN f32.
F32AsF64(b) ==
    LET sign == b[1] \div 128
        exp == (b[1] % 128) * 2 + b[2] \div 128
        mant == ((b[2] % 128) * 256 + b[3]) * 256 + b[4]
        exp64 == IF exp = 0 THEN 0 ELSE IF exp = 255 THEN 2047 ELSE exp + 896
    IN <<sign * 128 + exp64 \div 16,
         (exp64 % 16) * 16 + mant \div 524288,
         (mant \div 2048) % 256,
         (mant \div 8) % 256,
         (mant % 8) * 32, 0, 0, 0>>

\* impl From<&IECData> for IECDataRasn
RECURSIVE IECDataRasnFrom(_)
IECDataRasnFrom(data) ==
    LET kind == Variant(data)
        v == Content(data)
    IN CASE kind \in {"Array", "Structure"} ->
                <<kind, [i \in 1..Len(v) |-> IECDataRasnFrom(v[i])]>>
         [] kind = "Boolean" -> <<kind, v>>
         [] kind = "BitString" -> <<kind, BitStringBytes(v)>>
         [] kind = "Int" -> <<kind, IntegerFromI64(v)>>
         [] kind = "UInt" -> <<kind, IntegerFromI64(U64AsI64(v))>>
         [] kind = "Float" -> <<kind, v>>
         [] kind = "OctetString" -> <<kind, HexDecodeOrDefault(v)>>
         [] kind \in {"VisibleString", "MmsString"} -> <<kind, VisibleOrEmpty(v)>>
         [] kind = "Timestamp" -> <<kind, TimestampToBytes(v)>>

\* impl From<&IECDataRasn> for IECData
RECURSIVE IECDataFrom(_)
IECDataFrom(data) ==
    LET kind == Variant(data)
        v == Content(data)
    IN CASE kind \in {"Array", "Structure"} ->
                <<kind, [i \in 1..Len(v) |-> IECDataFrom(v[i])]>>
         [] kind = "Boolean" -> <<kind, v>>
         [] kind = "BitString" -> <<kind, BinaryString(v)>>
         [] kind = "Int" -> <<kind, UnwrapOrZero(8, I64TryFrom(v))>>
         [] kind = "UInt" -> <<kind, UnwrapOrZero(8, UnsignedTryFrom(8, v))>>
         [] kind = "Float" ->
                <<kind, IF Len(v) = 4 THEN F32AsF64(v)
                        ELSE IF Len(v) = 8 THEN v
                        ELSE Zeros(8)>>
         [] kind = "OctetString" -> <<kind, HexEncode(v)>>
         [] kind \in {"VisibleString", "MmsString"} -> <<kind, v>>
         [] kind = "Timestamp" -> <<kind, TimestampFromRasn(v)>>

\* impl From<&IECGoosePdu> for IECGoosePduRasn
IECGoosePduRasnFrom(pdu) ==
    [go_cb_ref |-> VisibleOrEmpty(pdu.go_cb_ref),
     time_allowed_to_live |-> IntegerFromI64(U32AsI64(pdu.time_allowed_to_live)),
     dat_set |-> VisibleOrEmpty(pdu.dat_set),
     go_id |-> VisibleOrEmpty(pdu.go_id),
     t |-> TimestampToBytes(pdu.t),
     st_num |-> IntegerFromI64(U32AsI64(pdu.st_num)),
     sq_num |-> IntegerFromI64(U32AsI64(pdu.sq_num)),
     simulation |-> pdu.simulation,
     conf_rev |-> IntegerFromI64(U32AsI64(pdu.conf_rev)),
     nds_com |-> pdu.nds_com,
     num_dat_set_entries |-> IntegerFromI64(U32AsI64(pdu.num_dat_set_entries)),
     all_data |-> [i \in 1..Len(pdu.all_data) |-> IECDataRasnFrom(pdu.all_data[i])]]

\* impl From<&IECGoosePduRasn> for IECGoosePdu
IECGoosePduFrom(pdu) ==
    [go_cb_ref |-> pdu.go_cb_ref,
     time_allowed_to_live |-> UnwrapOrZero(4, UnsignedTryFrom(4, pdu.time_allowed_to_live)),
     dat_set |-> pdu.dat_set,
     go_id |-> pdu.go_id,
     t |-> TimestampFromRasn(pdu.t),
     st_num |-> UnwrapOrZero(4, UnsignedTryFrom(4, pdu.st_num)),
     sq_num |-> UnwrapOrZero(4, UnsignedTryFrom(4, pdu.sq_num)),
     simulation |-> pdu.simulation,
     conf_rev |-> UnwrapOrZero(4, UnsignedTryFrom(4, pdu.conf_rev)),
     nds_com |-> pdu.nds_com,
     num_dat_set_entries |-> UnwrapOrZero(4, UnsignedTryFrom(4, pdu.num_dat_set_entries)),
     all_data |-> [i \in 1..Len(pdu.all_data) |-> IECDataFrom(pdu.all_data[i])]]

\* The BER tag of each variant of the choice IECDataRasn (#[rasn(tag(context, n))]).
IECDataTag(kind) ==
    CASE kind = "Array" -> 161
      [] kind = "Structure" -> 162
      [] kind = "Boolean" -> 131
      [] kind = "BitString" -> 132
      [] kind = "Int" -> 133
      [] kind = "UInt" -> 134
      [] kind = "Float" -> 135
      [] kind = "OctetString" -> 137
      [] kind = "VisibleString" -> 138
      [] kind = "MmsString" -> 144
      [] kind = "Timestamp" -> 145

IECDataKinds ==
    {"Array", "Structure", "Boolean", "BitString", "Int", "UInt", "Float",
     "OctetString", "VisibleString", "MmsString", "Timestamp"}

\* rasn::ber::encode of an IECDataRasn: <<tag, content octets>>, the content
\* of a constructed element being its elements.
RECURSIVE BerEncodeData(_)
BerEncodeData(data) ==
    LET kind == Variant(data)
        v == Content(data)
    IN <<IECDataTag(kind),
         CASE kind \in {"Array", "Structure"} -> [i \in 1..Len(v) |-> BerEncodeData(v[i])]
           [] kind = "Boolean" -> <<IF v THEN 255 ELSE 0>>
           [] kind = "BitString" -> <<0>> \o v
           [] OTHER -> v>>

\* rasn::ber::decode of an IECDataRasn
RECURSIVE BerDecodeData(_)
BerDecodeData(element) ==
    LET kind == CHOOSE k \in IECDataKinds : IECDataTag(k) = element[1]
        c == element[2]
    IN <<kind,
         CASE kind \in {"Array", "Structure"} -> [i \in 1..Len(c) |-> BerDecodeData(c[i])]
           [] kind = "Boolean" -> c[1] # 0
           [] kind = "BitString" -> Tail(c)
           [] kind \in {"Int", "UInt"} -> ShortestTwosComplement(c)
           [] OTHER -> c>>

\* The number of bytes of an element on the wire: tag, length octets, content.
BerLengthOctets(n) == IF n < 128 THEN 1 ELSE IF n < 256 THEN 2 ELSE IF n < 65536 THEN 3 ELSE 4

RECURSIVE BerContentSize(_)
BerContentSize(element) ==
    IF element[1] \in {161, 162}
    THEN LET RECURSIVE Sum(_)
             Sum(es) == IF es = <<>> THEN 0
                        ELSE 1 + BerLengthOctets(BerContentSize(Head(es)))
                             + BerContentSize(Head(es)) + Sum(Tail(es))
         IN Sum(element[2])
    ELSE Len(element[2])

RECURSIVE BerSize(_)
BerSize(elements) ==
    IF elements = <<>> THEN 0
    ELSE 1 + BerLengthOctets(BerContentSize(Head(elements)))
         + BerContentSize(Head(elements)) + BerSize(Tail(elements))

\* rasn::ber::encode of an IECGoosePduRasn: the fields under the tag
\* [APPLICATION 1], each with its context tag.
BerEncodePdu(pdu) ==
    <<<<128, pdu.go_cb_ref>>,
      <<129, pdu.time_allowed_to_live>>,
      <<130, pdu.dat_set>>,
      <<131, pdu.go_id>>,
      <<132, pdu.t>>,
      <<133, pdu.st_num>>,
      <<134, pdu.sq_num>>,
      <<135, <<IF pdu.simulation THEN 255 ELSE 0>>>>,
      <<136, pdu.conf_rev>>,
      <<137, <<IF pdu.nds_com THEN 255 ELSE 0>>>>,
      <<138, pdu.num_dat_set_entries>>,
      <<171, [i \in 1..Len(pdu.all_data) |-> BerEncodeData(pdu.all_data[i])]>>>>

\* rasn::ber::decode of an IECGoosePduRasn
BerDecodePdu(fields) ==
    [go_cb_ref |-> fields[1][2],
     time_allowed_to_live |-> ShortestTwosComplement(fields[2][2]),
     dat_set |-> fields[3][2],
     go_id |-> fields[4][2],
     t |-> fields[5][2],
     st_num |-> ShortestTwosComplement(fields[6][2]),
     sq_num |-> ShortestTwosComplement(fields[7][2]),
     simulation |-> fields[8][2][1] # 0,
     conf_rev |-> ShortestTwosComplement(fields[9][2]),
     nds_com |-> fields[10][2][1] # 0,
     num_dat_set_entries |-> ShortestTwosComplement(fields[11][2]),
     all_data |-> [i \in 1..Len(fields[12][2]) |-> BerDecodeData(fields[12][2][i])]]

\* The number of bytes of the encoded PDU.
PduBytesLen(fields) ==
    LET n == BerSize(SubSeq(fields, 1, 11))
             + 1 + BerLengthOctets(BerSize(fields[12][2])) + BerSize(fields[12][2])
    IN 1 + BerLengthOctets(n) + n

\* encode_goose.rs, encode_ethernet_header
encode_ethernet_header(header, length) ==
    header.dst_addr \o header.src_addr
    \o (IF header.tpid.some /\ header.tci.some THEN header.tpid.v \o header.tci.v ELSE <<>>)
    \o header.ether_type \o header.appid
    \o U16ToBeBytes(length)
    \o <<0, 0>> \o <<0, 0>>

\* encode_goose.rs, encode_goose: the Ethernet header and the PDU bytes.
encode_goose(header, pdu) ==
    LET pdu_bytes == BerEncodePdu(IECGoosePduRasnFrom(pdu))
        length == ((PduBytesLen(pdu_bytes) % 65536) + 8) % 65536
    IN [ok |-> TRUE, header |-> encode_ethernet_header(header, length), pdu |-> pdu_bytes]

\* decode_goose.rs, decode_goose_pdu, on the PDU bytes of the frame
decode_goose_pdu(pdu_bytes) ==
    [st |-> "ok", pdu |-> IECGoosePduFrom(BerDecodePdu(pdu_bytes))]

-----------------------------------------------------------------------------
(* Part 3, the PDUs given to the codec *)

\* Largest number of entries of allData.
MaxAllData == 2

Ones(n) == [i \in 1..n |-> 255]

\* i64::MIN, -1, i64::MAX; 0, 255, 2^63 - 1, 2^63, u64::MAX; 1.0 and -f64::MAX;
\* bit strings of 8, 16 and 13 bits; an octet string, two strings, a timestamp.
IECDataLeaves ==
    {<<"Boolean", TRUE>>, <<"Boolean", FALSE>>,
     <<"Int", <<128>> \o Zeros(7)>>, <<"Int", Ones(8)>>, <<"Int", <<127>> \o Ones(7)>>,
     <<"UInt", Zeros(8)>>, <<"UInt", Zeros(7) \o <<255>>>>, <<"UInt", <<127>> \o Ones(7)>>,
     <<"UInt", <<128>> \o Zeros(7)>>, <<"UInt", Ones(8)>>,
     <<"Float", <<63, 240>> \o Zeros(6)>>, <<"Float", <<255, 239>> \o Ones(6)>>,
     <<"BitString", <<"0", "0", "0", "0", "1", "0", "0", "0">>>>,
     <<"BitString", <<"1", "0", "0", "0", "0", "0", "0", "0",
                      "0", "0", "0", "0", "0", "0", "0", "1">>>>,
     <<"BitString", <<"1", "0", "0", "0", "0", "0", "0", "0", "0", "0", "0", "0", "1">>>>,
     <<"OctetString", <<"0", "a", "f", "f">>>>,
     <<"VisibleString", <<116, 101, 115, 116>>>>,
     <<"MmsString", <<73, 69, 68, 49>>>>,
     <<"Timestamp", [seconds |-> <<32, 33, 6, 18>>, fraction |-> <<0, 10, 48, 0>>,
                     quality |-> [leap_second_known |-> TRUE, clock_failure |-> FALSE,
                                  clock_not_synchronized |-> TRUE, time_accuracy |-> 10]]>>}

\* The leaves, arrays of one leaf and a structure that nests an array.
IECDataInputs ==
    IECDataLeaves
    \cup {<<"Array", <<x>>>> : x \in IECDataLeaves}
    \cup {<<"Structure", <<<<"Array", <<x, x>>>>, <<"Boolean", TRUE>>>>>> :
             x \in {<<"Int", Ones(8)>>, <<"UInt", Ones(8)>>}}

GoosePduInput(simulation, st_num, all_data) ==
    [go_cb_ref |-> <<73, 69, 68, 49, 47, 76, 76, 78, 48, 36, 71, 79, 36, 103, 99, 98, 49>>,
     time_allowed_to_live |-> <<0, 0, 7, 208>>,
     dat_set |-> <<73, 69, 68, 49, 47, 76, 76, 78, 48, 36, 68, 83, 49>>,
     go_id |-> <<71, 79, 79, 83, 69, 49>>,
     t |-> [seconds |-> <<32, 33, 6, 18>>, fraction |-> <<0, 10, 48, 0>>,
            quality |-> TimeQualityFromByte(0)],
     st_num |-> st_num,
     sq_num |-> <<0, 0, 0, 42>>,
     simulation |-> simulation,
     conf_rev |-> <<0, 0, 0, 128>>,
     nds_com |-> FALSE,
     num_dat_set_entries |-> <<0, 0, 0, Len(all_data)>>,
     all_data |-> all_data]

\* PDUs whose num_dat_set_entries was not set from all_data: it holds 2
\* whatever all_data holds.
StaleEntriesInputs ==
    {[GoosePduInput(FALSE, <<0, 0, 0, 1>>, all_data)
         EXCEPT !.num_dat_set_entries = <<0, 0, 0, 2>>] :
        all_data \in SeqsUpTo({<<"Boolean", TRUE>>, <<"Int", Ones(8)>>,
                               <<"Array", <<<<"Boolean", TRUE>>, <<"Boolean", FALSE>>>>>>},
                              MaxAllData)}

GoosePduInputs ==
    {GoosePduInput(simulation, st_num, all_data) :
        simulation \in BOOLEAN, st_num \in {<<0, 0, 0, 1>>, Ones(4)},
        all_data \in SeqsUpTo(IECDataInputs, MaxAllData)}
    \cup StaleEntriesInputs

GooseHeader(vlan) ==
    [dst_addr |-> <<1, 12, 205, 1, 0, 1>>,
     src_addr |-> <<0, 26, 182, 3, 47, 28>>,
     tpid |-> IF vlan THEN Some(<<129, 0>>) ELSE None,
     tci |-> IF vlan THEN Some(<<0, 1>>) ELSE None,
     ether_type |-> <<136, 184>>,
     appid |-> <<16, 1>>]

-----------------------------------------------------------------------------
(* Part 3, the specification: a PDU is encoded, then decoded *)

InitGoose ==
    /\ EngineInit
    /\ SmvIdle
    /\ BasicsIdle
    /\ goose_pc = "input"
    /\ goose_in \in {[header |-> GooseHeader(vlan), pdu |-> pdu] :
                        vlan \in BOOLEAN, pdu \in GoosePduInputs}
    /\ goose_frame = <<>>
    /\ goose_out = <<>>

\* encode_goose(&header, &pdu)
GooseEncode ==
    /\ goose_pc = "input"
    /\ goose_frame' = encode_goose(goose_in.header, goose_in.pdu)
    /\ goose_pc' = "encoded"
    /\ UNCHANGED <<goose_in, goose_out, engine_vars, smv_vars, basics_vars>>

\* pos = decode_ethernet_header(&mut header, &frame); decode_goose_pdu(&frame, pos)
GooseDecode ==
    /\ goose_pc = "encoded"
    /\ goose_frame.ok
    /\ goose_out' = decode_goose_pdu(goose_frame.pdu)
    /\ goose_pc' = "decoded"
    /\ UNCHANGED <<goose_in, goose_frame, engine_vars, smv_vars, basics_vars>>

NextGoose ==
    \/ GooseEncode
    \/ GooseDecode

SpecGoose == InitGoose /\ [][NextGoose]_vars

-----------------------------------------------------------------------------
(* Properties of the GOOSE codec *)

\* C10: for every valid GoosePdu, whatever its allData holds (Boolean, Int over
\* the i64 range, UInt over the u64 range, Float, strings, bit strings, octet
\* strings, timestamps, nested arrays and structures), decoding the frame
\* produced by encode_goose yields a PDU equal to it in every field other than
\* numDatSetEntries.
C10_GooseRoundTrip ==
    goose_pc = "decoded" =>
        /\ goose_out.st = "ok"
        /\ \A f \in DOMAIN goose_in.pdu \ {"num_dat_set_entries"} :
              goose_out.pdu[f] = goose_in.pdu[f]

\* C14: every GOOSE frame produced by the encoder carries a numDatSetEntries
\* field equal to the number of top-level entries of the allData it carries,
\* whatever value the caller's PDU holds in num_dat_set_entries.
C14_NumDatSetEntriesIsAllDataLength ==
    (goose_pc \in {"encoded", "decoded"} /\ goose_frame.ok) =>
        ShortestTwosComplement(goose_frame.pdu[11][2])
            = ShortestTwosComplement(<<0, Len(goose_frame.pdu[12][2])>>)

-----------------------------------------------------------------------------
(* Part 4 (specification SpecBasics): the BER primitives of                 *)
(* src/encode_basics.rs and src/decode_basics.rs.  An encoder is given the  *)
(* room left in its buffer (buffer.len() - buffer_index) and returns the    *)
(* bytes it writes from buffer_index on, or an EncodeError.  Integers wider *)
(* than 16 bits are their big-endian bytes.                                 *)

Ok(bytes) == [ok |-> TRUE, bytes |-> bytes]
Err == [ok |-> FALSE, bytes |-> <<>>]

\* Rust's to_be_bytes of a u8 / i8 and of a u16 / i16, from the unsigned
\* reading of the bits.
ToBeBytes(width, v) == IF width = 1 THEN <<v>> ELSE <<v \div 256, v % 256>>

\* The reduction that drops every leading 0x00 byte, whatever follows it.
minimal_twos_complement_bytes_AnyZero(value) == StripLeadingZeros(value)

\* The loop of minimal_twos_complement_bytes, on a value of one byte or more
\* (every caller passes the to_be_bytes of an integer).
RECURSIVE minimal_twos_complement_bytes(_)
minimal_twos_complement_bytes(value) ==
    IF Len(value) > 1 /\ \/ (value[1] = 0 /\ value[2] < 128)
                         \/ (value[1] = 255 /\ value[2] >= 128)
    THEN minimal_twos_complement_bytes(Tail(value))
    ELSE value

size_length(value) ==
    IF value < 128 THEN 1
    ELSE IF value < 256 THEN 2
    ELSE IF value < 65535 THEN 3
    ELSE 4

encode_tag_length(tag, value, room) ==
    IF room < 1 + size_length(value) THEN Err
    ELSE IF value < 128 THEN Ok(<<tag, value>>)
    ELSE IF value < 256 THEN Ok(<<tag, 129, value>>)
    ELSE IF value < 65535 THEN Ok(<<tag, 130, value \div 256, value % 256>>)
    ELSE IF value >= 16777216 THEN Err
    ELSE Ok(<<tag, 131, value \div 65536, (value \div 256) % 256, value % 256>>)

encode_ber(tag, value, room) ==
    IF room < 1 + size_length(Len(value)) + Len(value) THEN Err
    ELSE LET tl == encode_tag_length(tag, Len(value), room)
         IN IF tl.ok THEN Ok(tl.bytes \o value) ELSE Err

encode_integer(tag, value, room) ==
    encode_ber(tag, minimal_twos_complement_bytes(value), room)

encode_unsigned_integer(tag, value, room) ==
    LET minimal == minimal_twos_complement_bytes(value)
    IN IF minimal # <<>> /\ minimal[1] >= 128
       THEN encode_ber(tag, <<0>> \o minimal, room)
       ELSE encode_ber(tag, minimal, room)

\* decompress_integer into a value of `width` bytes: the sign-extended bytes,
\* or a panic.
decompress_integer(width, buffer, buffer_index, length) ==
    IF buffer_index + length > Len(buffer) THEN [st |-> "panic", value |-> <<>>]
    ELSE IF length > width THEN [st |-> "panic", value |-> <<>>]
    ELSE IF buffer_index >= Len(buffer) THEN [st |-> "panic", value |-> <<>>]
    ELSE LET fill == IF At(buffer, buffer_index) >= 128 THEN 255 ELSE 0
             fill_length == width - length
         IN [st |-> "ok",
             value |-> [i \in 1..fill_length |-> fill]
                       \o Slice(buffer, buffer_index, buffer_index + length)]

\* A write past the end of the buffer.
Panic == [ok |-> FALSE, bytes |-> <<>>, panic |-> TRUE]
IsPanic(r) == "panic" \in DOMAIN r

encode_boolean(tag, value, room) ==
    IF room < 3 THEN Err ELSE Ok(<<tag, 1, IF value THEN 255 ELSE 0>>)

\* value.as_bytes(): a string is its bytes
encode_string(tag, value, room) == encode_ber(tag, value, room)

encode_octet_string(tag, value, room) == encode_ber(tag, value, room)

\* The capacity check asks for 6 bytes, 7 are written.
encode_float(tag, bytes, room) ==
    IF Len(bytes) # 4 THEN Err
    ELSE IF room < 6 THEN Err
    ELSE IF room < 7 THEN Panic
    ELSE Ok(<<tag, 5, 8>> \o bytes)

\* u8::reverse_bits, on the n low bits
RECURSIVE ReverseBits(_, _)
ReverseBits(b, n) ==
    IF n = 0 THEN 0 ELSE (b % 2) * 2^(n - 1) + ReverseBits(b \div 2, n - 1)

encode_coded_enum(tag, value, padding, room) ==
    LET total_len == Len(value) + 1
        tl == encode_tag_length(tag, total_len, room)
    IN IF room < 1 + size_length(total_len) + total_len THEN Err
       ELSE IF ~tl.ok THEN Err
       ELSE Ok(tl.bytes \o <<padding>>
               \o [i \in 1..Len(value) |-> ReverseBits(value[Len(value) - i + 1], 8)])

minimal_integer_size(value) == Len(minimal_twos_complement_bytes(value))

minimal_unsigned_size(bytes) ==
    LET minimal == StripLeadingZeros(bytes)
    IN IF minimal # <<>> /\ minimal[1] >= 128 THEN Len(minimal) + 1 ELSE Len(minimal)

\* The variants of IECData that encode_basics.rs matches on: an element is
\* <<variant, content>>, BitString's content is <<padding, val>>.
SignedVariants == {"Int8", "Int16", "Int32", "Int64"}
UnsignedVariants == {"Int8u", "Int16u", "Int32u"}
BytesVariants == {"VisibleString", "MmsString", "OctetString", "UtcTime"}

RECURSIVE size_iec_data_element(_)
RECURSIVE size_iec_data(_)
size_iec_data_element(data) ==
    LET val == Content(data)
    IN CASE Variant(data) = "Boolean" -> 3
         [] Variant(data) \in SignedVariants ->
               1 + size_length(minimal_integer_size(val)) + minimal_integer_size(val)
         [] Variant(data) \in UnsignedVariants ->
               1 + size_length(minimal_unsigned_size(val)) + minimal_unsigned_size(val)
         [] Variant(data) = "Float32" -> 1 + size_length(5) + 5
         [] Variant(data) \in BytesVariants -> 1 + size_length(Len(val)) + Len(val)
         [] Variant(data) = "BitString" ->
               1 + size_length(Len(val[2]) + 1) + 1 + Len(val[2])
         [] Variant(data) \in {"Array", "Structure"} ->
               1 + size_length(size_iec_data(val)) + size_iec_data(val)
         [] OTHER -> 0

size_iec_data(all_data) ==
    IF all_data = <<>> THEN 0
    ELSE size_iec_data_element(Head(all_data)) + size_iec_data(Tail(all_data))

RECURSIVE encode_iec_data_element(_, _)
RECURSIVE encode_elements(_, _, _)
\* The second loop of encode_structure: an element that fails is skipped
\* (unwrap_or(new_pos)).
encode_elements(value, written, room) ==
    IF value = <<>> \/ IsPanic(written) THEN written
    ELSE LET r == encode_iec_data_element(Head(value), room - Len(written.bytes))
         IN encode_elements(Tail(value),
                            IF IsPanic(r) THEN Panic
                            ELSE IF r.ok THEN Ok(written.bytes \o r.bytes)
                            ELSE written,
                            room)

encode_structure(tag, value, room) ==
    LET tl == encode_tag_length(tag, size_iec_data(value), room)
    IN IF ~tl.ok THEN Err ELSE encode_elements(value, tl, room)

encode_iec_data_element(data, room) ==
    LET val == Content(data)
    IN CASE Variant(data) = "Boolean" -> encode_boolean(131, val, room)
         [] Variant(data) \in SignedVariants -> encode_integer(133, val, room)
         [] Variant(data) \in UnsignedVariants -> encode_unsigned_integer(134, val, room)
         [] Variant(data) = "Float32" -> encode_float(135, val, room)
         [] Variant(data) = "VisibleString" -> encode_string(138, val, room)
         [] Variant(data) = "MmsString" -> encode_string(144, val, room)
         [] Variant(data) = "BitString" -> encode_coded_enum(132, val[2], val[1], room)
         [] Variant(data) = "Array" -> encode_structure(161, val, room)
         [] Variant(data) = "Structure" -> encode_structure(162, val, room)
         [] Variant(data) = "OctetString" -> encode_octet_string(137, val, room)
         [] Variant(data) = "UtcTime" -> encode_octet_string(145, val, room)
         [] OTHER -> Err

\* decode_bit_string with the bytes left in the order of the wire
decode_bit_string_WireOrder(buffer, buffer_index, length) ==
    IF buffer_index + length > Len(buffer) THEN [st |-> "panic"]
    ELSE [st |-> "ok",
          padding |-> At(buffer, buffer_index),
          val |-> [i \in 1..(length - 1) |-> ReverseBits(At(buffer, buffer_index + i), 8)],
          pos |-> buffer_index + length]

\* decode_bit_string: the padding, the value and the next position, or a panic.
\* val[value_len - i - 1] = buffer[buffer_index + 1 + i].reverse_bits()
decode_bit_string(buffer, buffer_index, length) ==
    IF buffer_index + length > Len(buffer) THEN [st |-> "panic"]
    ELSE LET value_len == length - 1
         IN [st |-> "ok",
             padding |-> At(buffer, buffer_index),
             val |-> [k \in 1..value_len |->
                         ReverseBits(At(buffer, buffer_index + 1 + (value_len - k)), 8)],
             pos |-> buffer_index + length]

\* decode_ethernet_header that takes the bytes at offset 12 for the EtherType
decode_ethernet_header_Untagged(buffer) ==
    IF Len(buffer) < 18 THEN [st |-> "panic"]
    ELSE [st |-> "ok",
          header |-> [dst_addr |-> Slice(buffer, 0, 6),
                      src_addr |-> Slice(buffer, 6, 12),
                      tpid |-> None,
                      tci |-> None,
                      ether_type |-> Slice(buffer, 12, 14),
                      appid |-> Slice(buffer, 14, 16),
                      length |-> Slice(buffer, 16, 18)],
          pos |-> 22]

\* decode_goose.rs, decode_ethernet_header: the header read and the next
\* position, or a panic when a slice leaves the buffer.
decode_ethernet_header(buffer) ==
    IF Len(buffer) < 14 THEN [st |-> "panic"]
    ELSE LET vlan == Slice(buffer, 12, 14) = <<129, 0>>
             at == IF vlan THEN 16 ELSE 12
         IN IF vlan /\ Len(buffer) < 16 THEN [st |-> "panic"]
            ELSE IF Len(buffer) < at + 6 THEN [st |-> "panic"]
            ELSE [st |-> "ok",
                  header |-> [dst_addr |-> Slice(buffer, 0, 6),
                              src_addr |-> Slice(buffer, 6, 12),
                              tpid |-> IF vlan THEN Some(Slice(buffer, 12, 14)) ELSE None,
                              tci |-> IF vlan THEN Some(Slice(buffer, 14, 16)) ELSE None,
                              ether_type |-> Slice(buffer, at, at + 2),
                              appid |-> Slice(buffer, at + 2, at + 4),
                              length |-> Slice(buffer, at + 4, at + 6)],
                  pos |-> at + 6 + 2 + 2]

\* encode_iec_data: the elements in sequence, the first error returned (`?`).
RECURSIVE encode_iec_data(_, _)
encode_iec_data(all_data, room) ==
    IF all_data = <<>> THEN Ok(<<>>)
    ELSE LET r == encode_iec_data_element(Head(all_data), room)
         IN IF IsPanic(r) THEN Panic
            ELSE IF ~r.ok THEN Err
            ELSE LET rest == encode_iec_data(Tail(all_data), room - Len(r.bytes))
                 IN IF IsPanic(rest) THEN Panic
                    ELSE IF ~rest.ok THEN Err
                    ELSE Ok(r.bytes \o rest.bytes)

-----------------------------------------------------------------------------
(* Part 4, the inputs *)

\* The room of a buffer that is large enough for every value encoded here.
LargeRoom == 1024

\* The bytes the wide integers are made of: no bit, every bit, and the two
\* values either side of the top bit.
ByteLevels == {0, 127, 128, 255}

\* Every u8 / i8 and u16 / i16, and the u32 / i32 and i64 made of ByteLevels.
IntegerBytes(width) ==
    IF width <= 2 THEN [1..width -> 0..255] ELSE [1..width -> ByteLevels]

UnsignedCalls == {<<"encode_unsigned_integer", value>> :
                     value \in IntegerBytes(1) \cup IntegerBytes(2) \cup IntegerBytes(4)}

\* The longest array or structure.
MaxElems == 2

\* n bytes of the letter a
Letters(n) == [i \in 1..n |-> 97]

SignedInputs ==
    {<<"Int8", v>> : v \in {<<0>>, <<127>>, <<128>>, <<255>>}}
    \cup {<<"Int16", v>> : v \in [1..2 -> ByteLevels]}
    \cup {<<"Int32", v>> : v \in {<<0, 0, 0, 32>>, <<0, 0, 128, 0>>, <<255, 255, 255, 224>>,
                                   <<255, 127, 255, 255>>, <<128, 0, 0, 0>>}}
    \cup {<<"Int64", v>> : v \in {Zeros(8), Ones(8), <<127>> \o Ones(7), <<128>> \o Zeros(7)}}

UnsignedInputs ==
    {<<"Int8u", v>> : v \in {<<0>>, <<8>>, <<128>>, <<255>>}}
    \cup {<<"Int16u", v>> : v \in [1..2 -> ByteLevels]}
    \cup {<<"Int32u", v>> : v \in {<<0, 0, 0, 32>>, <<0, 0, 128, 0>>, <<0, 255, 255, 255>>,
                                    <<128, 0, 0, 0>>, Ones(4)}}

ElementLeaves ==
    {<<"Boolean", b>> : b \in BOOLEAN}
    \cup SignedInputs \cup UnsignedInputs
    \cup {<<"Float32", <<63, 157, 112, 164>>>>, <<"Float64", <<63, 243, 174, 20, 122, 225, 71, 174>>>>}
    \cup {<<"VisibleString", Letters(n)>> : n \in {0, 3, 127, 128, 255, 256}}
    \cup {<<"MmsString", <<195, 188, 195, 182, 195, 164, 195, 159>>>>}
    \cup {<<"OctetString", v>> : v \in {<<>>, <<1, 2, 3>>}}
    \cup {<<"UtcTime", <<1, 2, 3, 4, 5, 6, 7, 8>>>>}
    \cup {<<"BitString", <<3, <<168>>>>>>, <<"BitString", <<0, <<>>>>>>}

\* The elements put into arrays and structures.
NestedLeaves ==
    {<<"Boolean", TRUE>>, <<"Int16", <<0, 42>>>>, <<"Int8u", <<1>>>>, <<"Int16u", <<0, 128>>>>,
     <<"Float64", <<63, 243, 174, 20, 122, 225, 71, 174>>>>, <<"MmsString", Letters(6)>>,
     <<"VisibleString", Letters(128)>>}

Containers(elems) ==
    {<<kind, val>> : kind \in {"Array", "Structure"}, val \in SeqsUpTo(elems, MaxElems)}

ElementInputs ==
    ElementLeaves \cup Containers(NestedLeaves)
    \cup Containers({<<"Int8u", <<2>>>>, <<"Array", <<<<"Int8u", <<1>>>>, <<"Int8u", <<2>>>>>>>>,
                     <<"Structure", <<<<"VisibleString", Letters(128)>>>>>>})

ElementCalls == {<<"encode_iec_data_element", data>> : data \in ElementInputs}

\* Every i8 and i16, and the i32 and i64 made of ByteLevels.
MinimalCalls == {<<"minimal_twos_complement_bytes", value>> :
                    value \in IntegerBytes(1) \cup IntegerBytes(2)
                               \cup IntegerBytes(4) \cup IntegerBytes(8)}

\* Lengths either side of each form of the length field, and the first
\* length that has no form.
LengthInputs == {0, 1, 127, 128, 129, 255, 256, 257, 65534, 65535, 65536, 65537,
                 16777215, 16777216}

TagLengthCalls == {<<"encode_tag_length", <<tag, value>>>> :
                      tag \in {48, 128, 162}, value \in LengthInputs}

\* Bit strings: none, every single byte, the pairs and triples of a few bytes,
\* and the lengths either side of the one-byte length field; padding 0..7.
BitBytes == {0, 1, 17, 85, 128, 255}

CodedEnumCalls ==
    {<<"encode_coded_enum", <<value, padding>>>> :
        value \in [1..0 -> BitBytes] \cup [1..1 -> 0..255] \cup [1..2 -> BitBytes]
                  \cup [1..3 -> BitBytes] \cup {Letters(126), Letters(127), Letters(255)},
        padding \in 0..7}

\* Ethernet headers: without a VLAN tag or with tpid 0x8100, the three
\* EtherTypes of IEC 61850, addresses and APPIDs that hold the bytes 0x81 0x00
\* themselves; lengths over the u16 range, 0x8100 among them.
HeaderInputs ==
    {[dst_addr |-> dst, src_addr |-> src, tpid |-> vlan[1], tci |-> vlan[2],
      ether_type |-> ether_type, appid |-> appid] :
        dst \in {<<1, 12, 205, 1, 0, 1>>, <<255, 255, 255, 255, 129, 0>>},
        src \in {<<0, 26, 182, 3, 47, 28>>, <<129, 0, 129, 0, 129, 0>>},
        vlan \in {<<None, None>>, <<Some(<<129, 0>>), Some(<<0, 1>>)>>,
                  <<Some(<<129, 0>>), Some(<<129, 0>>)>>,
                  <<Some(<<129, 0>>), Some(<<255, 255>>)>>},
        ether_type \in {<<136, 184>>, <<136, 185>>, <<136, 186>>},
        appid \in {<<16, 1>>, <<129, 0>>, <<0, 0>>}}

HeaderCalls ==
    {<<"encode_ethernet_header", <<header, length>>>> :
        header \in HeaderInputs,
        length \in {0, 8, 140, 255, 256, 33024, 65535}}

\* allData of up to MaxElems entries: elements that encode, the unsupported
\* Float64 at the top level and one and two levels down, and strings in
\* structures; buffers that hold everything, nothing, or a part.
AllDataElements ==
    {<<"Boolean", TRUE>>, <<"VisibleString", Letters(3)>>,
     <<"Float64", <<63, 243, 174, 20, 122, 225, 71, 174>>>>,
     <<"Structure", <<<<"Float64", <<63, 243, 174, 20, 122, 225, 71, 174>>>>>>>>,
     <<"Array", <<<<"Boolean", TRUE>>,
                  <<"Array", <<<<"Float64", <<63, 243, 174, 20, 122, 225, 71, 174>>>>>>>>>>>>,
     <<"Structure", <<<<"VisibleString", Letters(3)>>>>>>,
     <<"Structure", <<<<"Boolean", FALSE>>, <<"VisibleString", Letters(3)>>>>>>}

IecDataCalls ==
    {<<"encode_iec_data", <<all_data, room>>>> :
        all_data \in SeqsUpTo(AllDataElements, MaxElems),
        room \in {0, 2, 4, 6, 9, 11, LargeRoom}}

-----------------------------------------------------------------------------
(* Part 4, the specification: one primitive is called on one input *)

InitBasics ==
    /\ EngineInit
    /\ SmvIdle
    /\ GooseIdle
    /\ basics_pc = "input"
    /\ \/ basics_in \in UnsignedCalls
       \/ basics_in \in ElementCalls
       \/ basics_in \in MinimalCalls
       \/ basics_in \in TagLengthCalls
       \/ basics_in \in CodedEnumCalls
       \/ basics_in \in HeaderCalls
       \/ basics_in \in IecDataCalls
    /\ basics_out = <<>>

\* encode_unsigned_integer(0x86, &val.to_be_bytes(), &mut buffer, 0)
CallEncodeUnsignedInteger ==
    /\ basics_pc = "input"
    /\ basics_in[1] = "encode_unsigned_integer"
    /\ basics_out' = encode_unsigned_integer(134, basics_in[2], LargeRoom)
    /\ basics_pc' = "done"
    /\ UNCHANGED <<basics_in, engine_vars, smv_vars, goose_codec_vars>>

\* encode_iec_data_element(&data, &mut buffer, 0)
CallEncodeIecDataElement ==
    /\ basics_pc = "input"
    /\ basics_in[1] = "encode_iec_data_element"
    /\ basics_out' = encode_iec_data_element(basics_in[2], LargeRoom)
    /\ basics_pc' = "done"
    /\ UNCHANGED <<basics_in, engine_vars, smv_vars, goose_codec_vars>>

\* minimal_twos_complement_bytes(&x.to_be_bytes()), then decompress_integer
\* of the result into a value of the original width (decode_integer_8 .. 64)
CallMinimalTwosComplement ==
    /\ basics_pc = "input"
    /\ basics_in[1] = "minimal_twos_complement_bytes"
    /\ LET minimal == minimal_twos_complement_bytes(basics_in[2])
       IN basics_out' = [minimal |-> minimal,
                         restored |-> decompress_integer(Len(basics_in[2]), minimal,
                                                         0, Len(minimal))]
    /\ basics_pc' = "done"
    /\ UNCHANGED <<basics_in, engine_vars, smv_vars, goose_codec_vars>>

\* encode_tag_length(tag, value, &mut buffer, 0)
CallEncodeTagLength ==
    /\ basics_pc = "input"
    /\ basics_in[1] = "encode_tag_length"
    /\ basics_out' = encode_tag_length(basics_in[2][1], basics_in[2][2], LargeRoom)
    /\ basics_pc' = "done"
    /\ UNCHANGED <<basics_in, engine_vars, smv_vars, goose_codec_vars>>

\* encode_coded_enum(0x84, &val, padding, &mut buffer, 0), then
\* decode_bit_string at the position after the tag and the length field, with
\* the length the field holds
CallEncodeCodedEnum ==
    /\ basics_pc = "input"
    /\ basics_in[1] = "encode_coded_enum"
    /\ LET value == basics_in[2][1]
           encoded == encode_coded_enum(132, value, basics_in[2][2], LargeRoom)
           length == Len(value) + 1
       IN basics_out' = [encoded |-> encoded,
                         decoded |-> IF encoded.ok
                                     THEN decode_bit_string(encoded.bytes,
                                                            1 + size_length(length), length)
                                     ELSE [st |-> "none"]]
    /\ basics_pc' = "done"
    /\ UNCHANGED <<basics_in, engine_vars, smv_vars, goose_codec_vars>>

\* encode_ethernet_header(&header, length), then
\* decode_ethernet_header(&mut decoded, &buffer)
CallEncodeEthernetHeader ==
    /\ basics_pc = "input"
    /\ basics_in[1] = "encode_ethernet_header"
    /\ LET buffer == encode_ethernet_header(basics_in[2][1], basics_in[2][2])
       IN basics_out' = [buffer |-> buffer, decoded |-> decode_ethernet_header(buffer)]
    /\ basics_pc' = "done"
    /\ UNCHANGED <<basics_in, engine_vars, smv_vars, goose_codec_vars>>

\* encode_iec_data(&all_data, &mut buffer, 0) with a buffer of `room` bytes
CallEncodeIecData ==
    /\ basics_pc = "input"
    /\ basics_in[1] = "encode_iec_data"
    /\ basics_out' = encode_iec_data(basics_in[2][1], basics_in[2][2])
    /\ basics_pc' = "done"
    /\ UNCHANGED <<basics_in, engine_vars, smv_vars, goose_codec_vars>>

NextBasics ==
    \/ CallEncodeUnsignedInteger
    \/ CallEncodeIecDataElement
    \/ CallMinimalTwosComplement
    \/ CallEncodeTagLength
    \/ CallEncodeCodedEnum
    \/ CallEncodeEthernetHeader
    \/ CallEncodeIecData

SpecBasics == InitBasics /\ [][NextBasics]_vars

-----------------------------------------------------------------------------
(* Properties of the BER primitives *)

\* The content octets of an element with a one-byte length field.
ContentOf(bytes) == SubSeq(bytes, 3, Len(bytes))

\* C11: for every u8, u16 and u32 value, encode_unsigned_integer writes as
\* content the value's big-endian bytes with only leading 0x00 bytes removed,
\* preceded by a single 0x00 when the first remaining byte has its top bit
\* set, so that reading the content back as an unsigned integer gives the
\* original value.
C11_UnsignedContent ==
    (basics_pc = "done" /\ basics_in[1] = "encode_unsigned_integer") =>
        LET stripped == StripLeadingZeros(basics_in[2])
        IN /\ basics_out.ok
           /\ ContentOf(basics_out.bytes) =
                 IF stripped[1] >= 128 THEN <<0>> \o stripped ELSE stripped
           /\ StripLeadingZeros(ContentOf(basics_out.bytes)) = stripped

\* C12: for every IECData value v, including every unsigned value and every
\* nested array or structure, size_iec_data_element(v) equals the number of
\* bytes that encode_iec_data_element(v) writes into a sufficiently large
\* buffer.
C12_SizeIsEncodedLength ==
    (basics_pc = "done" /\ basics_in[1] = "encode_iec_data_element") =>
        size_iec_data_element(basics_in[2]) = Len(basics_out.bytes)

\* C19: for every signed integer x of width 8, 16, 32 or 64 bits,
\* sign-extending minimal_twos_complement_bytes(big-endian bytes of x) back to
\* the original width returns x, and the minimal form never begins with 0x00
\* followed by a byte whose top bit is clear nor with 0xFF followed by a byte
\* whose top bit is set.
C19_MinimalFormRoundTrip ==
    (basics_pc = "done" /\ basics_in[1] = "minimal_twos_complement_bytes") =>
        LET m == basics_out.minimal
        IN /\ basics_out.restored.st = "ok"
           /\ basics_out.restored.value = basics_in[2]
           /\ Len(m) >= 1
           /\ Len(m) > 1 => /\ ~(m[1] = 0 /\ m[2] < 128)
                            /\ ~(m[1] = 255 /\ m[2] >= 128)

\* The i64 -129 (FF .. FF 7F) was reduced to FF 7F and restored.
C19_Witness ==
    /\ basics_pc = "done"
    /\ basics_in = <<"minimal_twos_complement_bytes", Ones(7) \o <<127>>>>
    /\ basics_out.minimal = <<255, 127>>
    /\ basics_out.restored.value = Ones(7) \o <<127>>

\* C20: for every length n below 2^24, encode_tag_length writes the tag
\* followed by: the single byte n when n < 128; 0x81, n when 128 <= n < 256;
\* 0x82, hi, lo when 256 <= n < 65536 (65535 included); and 0x83, b2, b1, b0
\* when 65536 <= n < 2^24.
C20_TagLengthForms ==
    (basics_pc = "done" /\ basics_in[1] = "encode_tag_length"
                       /\ basics_in[2][2] < 16777216) =>
        LET tag == basics_in[2][1]
            n == basics_in[2][2]
        IN /\ basics_out.ok
           /\ basics_out.bytes =
                 IF n < 128 THEN <<tag, n>>
                 ELSE IF n < 256 THEN <<tag, 129, n>>
                 ELSE IF n < 65536 THEN <<tag, 130, n \div 256, n % 256>>
                 ELSE <<tag, 131, n \div 65536, (n \div 256) % 256, n % 256>>

\* C21: for every byte sequence b and padding p in 0..7, encode_coded_enum
\* writes the unused-bits byte p followed by the bytes of b in reverse order
\* with the bits of each byte reversed, and decode_bit_string applied to that
\* content returns exactly b and p.
C21_CodedEnumRoundTrip ==
    (basics_pc = "done" /\ basics_in[1] = "encode_coded_enum") =>
        LET b == basics_in[2][1]
            p == basics_in[2][2]
            n == Len(b)
            header == 1 + size_length(n + 1)
            content == SubSeq(basics_out.encoded.bytes, header + 1,
                              Len(basics_out.encoded.bytes))
        IN /\ basics_out.encoded.ok
           /\ content = <<p>> \o [i \in 1..n |-> ReverseBits(b[n - i + 1], 8)]
           /\ basics_out.decoded.st = "ok"
           /\ basics_out.decoded.val = b
           /\ basics_out.decoded.padding = p
           /\ basics_out.decoded.pos = Len(basics_out.encoded.bytes)

\* [0x11, 0x55] with padding 2 was written as 84 03 02 AA 88 and read back.
C21_Witness ==
    /\ basics_pc = "done"
    /\ basics_in = <<"encode_coded_enum", <<<<17, 85>>, 2>>>>
    /\ basics_out.encoded.bytes = <<132, 3, 2, 170, 136>>
    /\ basics_out.decoded.val = <<17, 85>>
    /\ basics_out.decoded.padding = 2

\* C23: for every EthernetHeader whose VLAN tag is either absent or present
\* with tpid 0x8100, decode_ethernet_header applied to the bytes written by
\* encode_ethernet_header with length L returns the same addresses, VLAN
\* fields, ether_type and appid, a length field equal to L, and a next
\* position of 26 when the VLAN tag is present and 22 when it is absent.
C23_EthernetHeaderRoundTrip ==
    (basics_pc = "done" /\ basics_in[1] = "encode_ethernet_header") =>
        LET header == basics_in[2][1]
            decoded == basics_out.decoded
        IN /\ decoded.st = "ok"
           /\ \A f \in {"dst_addr", "src_addr", "tpid", "tci", "ether_type", "appid"} :
                 decoded.header[f] = header[f]
           /\ decoded.header.length = U16ToBeBytes(basics_in[2][2])
           /\ decoded.pos = (IF header.tpid.some THEN 26 ELSE 22)
           /\ decoded.pos = Len(basics_out.buffer)

\* A header with the tag 81 00 00 01 and length 140 was written on 26 bytes
\* and read back.
C23_Witness ==
    /\ basics_pc = "done"
    /\ basics_in[1] = "encode_ethernet_header"
    /\ basics_in[2][1].tpid = Some(<<129, 0>>)
    /\ basics_in[2][1].tci = Some(<<0, 1>>)
    /\ basics_in[2][2] = 140
    /\ Len(basics_out.buffer) = 26
    /\ basics_out.decoded.header.tci = Some(<<0, 1>>)
    /\ basics_out.decoded.header.length = <<0, 140>>
    /\ basics_out.decoded.pos = 26

\* An element of a type encode_iec_data_element has no arm for, at any depth.
RECURSIVE HasUnsupported(_)
HasUnsupported(all_data) ==
    \E i \in 1..Len(all_data) :
        LET data == all_data[i]
        IN IF Variant(data) \in {"Array", "Structure"} THEN HasUnsupported(Content(data))
           ELSE Variant(data) \notin SignedVariants \cup UnsignedVariants \cup BytesVariants
                                     \cup {"Boolean", "Float32", "BitString"}

\* C24: encode_iec_data returns an EncodeError whenever any element fails to
\* encode, including an element nested at any depth inside an Array or
\* Structure that is of an unsupported type or does not fit in the remaining
\* buffer.
C24_NestedFailureIsError ==
    (basics_pc = "done" /\ basics_in[1] = "encode_iec_data") =>
        LET all_data == basics_in[2][1]
            room == basics_in[2][2]
        IN (HasUnsupported(all_data) \/ size_iec_data(all_data) > room) => ~basics_out.ok

====
